---- MODULE Spec2Model ----
(***************************************************************************)
(* Ads-Analyzer: the per-company ad estimation pipeline of the API route   *)
(* variants (handle-verified ScrapingBee route, Browserless routes, the    *)
(* LLM-verified routes and the multi-platform route), modelled as a state  *)
(* machine over JavaScript strings.  Strings are TLA+ strings; the string  *)
(* and regular-expression primitives the routes use are defined below by   *)
(* what they compute.                                                      *)
(***************************************************************************)
EXTENDS Integers, Sequences, FiniteSets, TLC

(***************************************************************************)
(* JavaScript string primitives                                            *)
(***************************************************************************)

UpperLetters ==
  {"A","B","C","D","E","F","G","H","I","J","K","L","M",
   "N","O","P","Q","R","S","T","U","V","W","X","Y","Z"}

LowerLetters ==
  {"a","b","c","d","e","f","g","h","i","j","k","l","m",
   "n","o","p","q","r","s","t","u","v","w","x","y","z"}

Digits == {"0","1","2","3","4","5","6","7","8","9"}

\* \w of a JavaScript regular expression
WordChars == UpperLetters \cup LowerLetters \cup Digits \cup {"_"}

\* \s of a JavaScript regular expression (the members that occur in the inputs)
SpaceChars == {" ", "\n", "\t"}

LowerOf ==
  [c \in UpperLetters |->
     CASE c = "A" -> "a" [] c = "B" -> "b" [] c = "C" -> "c" [] c = "D" -> "d"
       [] c = "E" -> "e" [] c = "F" -> "f" [] c = "G" -> "g" [] c = "H" -> "h"
       [] c = "I" -> "i" [] c = "J" -> "j" [] c = "K" -> "k" [] c = "L" -> "l"
       [] c = "M" -> "m" [] c = "N" -> "n" [] c = "O" -> "o" [] c = "P" -> "p"
       [] c = "Q" -> "q" [] c = "R" -> "r" [] c = "S" -> "s" [] c = "T" -> "t"
       [] c = "U" -> "u" [] c = "V" -> "v" [] c = "W" -> "w" [] c = "X" -> "x"
       [] c = "Y" -> "y" [] OTHER -> "z"]

CharAt(s, i) == SubSeq(s, i, i)

Tail1(s) == SubSeq(s, 2, Len(s))

RECURSIVE toLowerCase(_)
\* String.prototype.toLowerCase (computed by halves to keep the recursion shallow)
toLowerCase(s) ==
  IF s = "" THEN ""
  ELSE IF Len(s) = 1 THEN (IF s \in UpperLetters THEN LowerOf[s] ELSE s)
  ELSE LET h == Len(s) \div 2
       IN toLowerCase(SubSeq(s, 1, h)) \o toLowerCase(SubSeq(s, h + 1, Len(s)))

\* s has p at position i (1-based)
StartsAt(s, p, i) ==
  /\ i >= 1
  /\ i + Len(p) - 1 <= Len(s)
  /\ SubSeq(s, i, i + Len(p) - 1) = p

\* String.prototype.includes
includes(s, p) == \E i \in 1..(Len(s) - Len(p) + 1) : StartsAt(s, p, i)

\* least position >= from where p occurs in s, 0 when there is none
indexOfFrom(s, p, from) ==
  LET hits == {i \in from..(Len(s) - Len(p) + 1) : StartsAt(s, p, i)}
  IN IF hits = {} THEN 0 ELSE CHOOSE i \in hits : \A j \in hits : i <= j

\* String.prototype.indexOf / lastIndexOf, 1-based, 0 for "not found" (-1 in JS)
indexOf(s, p) == indexOfFrom(s, p, 1)

lastIndexOf(s, p) ==
  LET hits == {i \in 1..(Len(s) - Len(p) + 1) : StartsAt(s, p, i)}
  IN IF hits = {} THEN 0 ELSE CHOOSE i \in hits : \A j \in hits : i >= j

RECURSIVE trimStart(_)
trimStart(s) ==
  IF s # "" /\ CharAt(s, 1) \in SpaceChars THEN trimStart(Tail1(s)) ELSE s

RECURSIVE trimEnd(_)
trimEnd(s) ==
  IF s # "" /\ CharAt(s, Len(s)) \in SpaceChars
  THEN trimEnd(SubSeq(s, 1, Len(s) - 1)) ELSE s

\* String.prototype.trim
trim(s) == trimEnd(trimStart(s))

RECURSIVE keepChars(_, _)
\* s.replace(/[^...]/g, '') for the character class `keep`
keepChars(s, keep) ==
  IF s = "" THEN ""
  ELSE IF Len(s) = 1 THEN (IF s \in keep THEN s ELSE "")
  ELSE LET h == Len(s) \div 2
       IN keepChars(SubSeq(s, 1, h), keep) \o keepChars(SubSeq(s, h + 1, Len(s)), keep)

Max(a, b) == IF a >= b THEN a ELSE b

Min(a, b) == IF a <= b THEN a ELSE b

\* the option type of a nullable JavaScript value: <<>> is null, <<v>> is v
None == <<>>

Some(v) == <<v>>

\* the member of a singleton set: The({f(v) : v \in {e}}) computes e once and
\* names its value v
The(S) == CHOOSE r \in S : TRUE

(***************************************************************************)
(* Regular expressions.  A pattern is a record; the patterns the routes    *)
(* use have one of four shapes:                                            *)
(*   lit   a literal text (RegExp built from a string: "." matches any     *)
(*         character but a line terminator)                                *)
(*   alts  an alternation of literals, tried in order                      *)
(*   run   first [^X]* mid1 [^X]* ... midn [^X]* , optionally closed by X  *)
(*   label >\s*Ad\s*<                                                      *)
(*   tagged   >\s*text\s*<                                                 *)
(*   classdiv <div[^>]*class="[^"]*word[^"]*"[^>]*>                        *)
(* ci is the i flag.  Every pattern is used with the g flag.               *)
(***************************************************************************)

Lit(text, ci) == [kind |-> "lit", text |-> text, ci |-> ci]

Alts(alts, ci) == [kind |-> "alts", alts |-> alts, ci |-> ci]

Run(first, mids, stop, closed, ci) ==
  [kind |-> "run", first |-> first, mids |-> mids, stop |-> stop,
   closed |-> closed, ci |-> ci]

AdLabel == [kind |-> "label", ci |-> TRUE]

Tagged(text) == [kind |-> "tagged", text |-> text, ci |-> TRUE]

ClassDiv(word) == [kind |-> "classdiv", word |-> word, ci |-> TRUE]

\* the literal p, "." being a wildcard, occurs in t at position i
DotLitAt(t, p, i) ==
  /\ i + Len(p) - 1 <= Len(t)
  /\ CharAt(t, i) = CharAt(p, 1) \/ CharAt(p, 1) = "."
  /\ \A k \in 1..Len(p) :
        IF CharAt(p, k) = "." THEN CharAt(t, i + k - 1) # "\n"
        ELSE CharAt(t, i + k - 1) = CharAt(p, k)

\* position of the first character from `from` on that is `stop`, Len(t)+1 if none
RunEnd(t, from, stop) ==
  LET hits == {j \in from..Len(t) : CharAt(t, j) = stop}
  IN IF hits = {} THEN Len(t) + 1 ELSE CHOOSE j \in hits : \A k \in hits : j <= k

RECURSIVE InOrder(_, _)
\* the literals of mids occur in r one after the other
InOrder(r, mids) ==
  IF mids = <<>> THEN TRUE
  ELSE LET at == indexOf(r, Head(mids))
       IN /\ at # 0
          /\ InOrder(SubSeq(r, at + Len(Head(mids)), Len(r)), Tail(mids))

RECURSIVE SkipSpaces(_, _)
SkipSpaces(t, j) ==
  IF j <= Len(t) /\ CharAt(t, j) \in SpaceChars THEN SkipSpaces(t, j + 1) ELSE j

\* the last position of the match of pat that starts at position i of t,
\* 0 when pat does not match there (t is already lower-cased for ci patterns)
matchEnd(pat, t, i) ==
  CASE pat.kind = "lit" ->
         IF pat.text # "" /\ DotLitAt(t, pat.text, i) THEN i + Len(pat.text) - 1 ELSE 0
    [] pat.kind = "alts" ->
         LET ok == {k \in 1..Len(pat.alts) : StartsAt(t, pat.alts[k], i)}
         IN IF ok = {} THEN 0
            ELSE LET k == CHOOSE a \in ok : \A b \in ok : a <= b
                 IN i + Len(pat.alts[k]) - 1
    [] pat.kind = "run" ->
         IF ~StartsAt(t, pat.first, i) THEN 0
         ELSE LET from == i + Len(pat.first)
                  e == RunEnd(t, from, pat.stop)
              IN IF /\ InOrder(SubSeq(t, from, e - 1), pat.mids)
                    /\ (pat.closed => e <= Len(t))
                 THEN (IF pat.closed THEN e ELSE e - 1)
                 ELSE 0
    [] pat.kind = "tagged" ->
         IF CharAt(t, i) # ">" THEN 0
         ELSE LET j == SkipSpaces(t, i + 1)
              IN IF ~StartsAt(t, pat.text, j) THEN 0
                 ELSE LET k == SkipSpaces(t, j + Len(pat.text))
                      IN IF k <= Len(t) /\ CharAt(t, k) = "<" THEN k ELSE 0
    [] pat.kind = "classdiv" ->
         IF ~StartsAt(t, "<div", i) THEN 0
         ELSE LET quoteEnd(c) == RunEnd(t, c + 7, "\"")
                  cs == {c \in (i + 4)..RunEnd(t, i + 4, ">") :
                           /\ StartsAt(t, "class=\"", c)
                           /\ quoteEnd(c) <= Len(t)
                           /\ includes(SubSeq(t, c + 7, quoteEnd(c) - 1), pat.word)
                           /\ RunEnd(t, quoteEnd(c) + 1, ">") <= Len(t)}
              IN IF cs = {} THEN 0
                 ELSE RunEnd(t, quoteEnd(CHOOSE c \in cs : \A d \in cs : c >= d) + 1, ">")
    [] OTHER ->
         IF CharAt(t, i) # ">" THEN 0
         ELSE LET j == SkipSpaces(t, i + 1)
              IN IF ~StartsAt(t, "ad", j) THEN 0
                 ELSE LET k == SkipSpaces(t, j + 2)
                      IN IF k <= Len(t) /\ CharAt(t, k) = "<" THEN k ELSE 0

RECURSIVE spansFrom(_, _, _)
\* the matches of a g-flag pattern, left to right, not overlapping:
\* <<start, end>>; ends[i] is the end of the match that starts at i, or 0
spansFrom(ends, starts, pos) ==
  IF \A i \in starts : i < pos THEN <<>>
  ELSE LET i == CHOOSE a \in starts : a >= pos /\ \A b \in starts : b >= pos => a <= b
       IN <<(<<i, ends[i]>>)>> \o spansFrom(ends, starts, ends[i] + 1)

matchSpans(s, pat) ==
  The({ The({ spansFrom(ends, {i \in 1..Len(t) : ends[i] # 0}, 1)
              : ends \in {[i \in 1..Len(t) |-> matchEnd(pat, t, i)]} })
        : t \in {IF pat.ci THEN toLowerCase(s) ELSE s} })

\* (s.match(pat) || []).length
matchCount(s, pat) == Len(matchSpans(s, pat))

\* s.split(pat): the pieces of s between the matches; an empty pattern
\* splits s into its characters
split(s, pat) ==
  IF pat.kind = "lit" /\ pat.text = ""
  THEN [i \in 1..Len(s) |-> CharAt(s, i)]
  ELSE The({ [k \in 1..(Len(sp) + 1) |->
                SubSeq(s, IF k = 1 THEN 1 ELSE sp[k - 1][2] + 1,
                          IF k = Len(sp) + 1 THEN Len(s) ELSE sp[k][1] - 1)]
             : sp \in {matchSpans(s, pat)} })

RECURSIVE join(_)
join(pieces) == IF pieces = <<>> THEN "" ELSE Head(pieces) \o join(Tail(pieces))

\* s.replace(pat, '') with a g-flag pattern
removeAll(s, pat) == join(split(s, pat))


(***************************************************************************)
(* Handle/Domain extractor (handle-verified ScrapingBee route)             *)
(***************************************************************************)

\* a list that keeps its repeated entries
dedupe_keepAll(xs, seen) == xs

RECURSIVE dedupe(_, _)
\* Array.from(new Set(xs)): first occurrences, in order
dedupe(xs, seen) ==
  IF xs = <<>> THEN <<>>
  ELSE IF Head(xs) \in seen THEN dedupe(Tail(xs), seen)
       ELSE <<Head(xs)>> \o dedupe(Tail(xs), seen \cup {Head(xs)})

RECURSIVE filterLonger(_, _)
\* xs.filter(h => h && h.length > n)
filterLonger(xs, n) ==
  IF xs = <<>> THEN <<>>
  ELSE (IF Head(xs) # "" /\ Len(Head(xs)) > n THEN <<Head(xs)>> ELSE <<>>)
         \o filterLonger(Tail(xs), n)

\* url.match(/host\/([^\/\?#]+)/i): the captured group, None when no match
hostCapture(url, host) ==
  The({ LET lead   == host \o "/"
            stops  == {"/", "?", "#"}
            starts == {i \in 1..Len(t) :
                         /\ StartsAt(t, lead, i)
                         /\ i + Len(lead) <= Len(t)
                         /\ CharAt(t, i + Len(lead)) \notin stops}
        IN IF starts = {} THEN None
           ELSE LET i    == CHOOSE a \in starts : \A b \in starts : a <= b
                    from == i + Len(lead)
                    ends == {j \in from..Len(t) : CharAt(t, j) \in stops}
                    e    == IF ends = {} THEN Len(t) + 1
                            ELSE CHOOSE a \in ends : \A b \in ends : a <= b
                IN Some(SubSeq(url, from, e - 1))
        : t \in {toLowerCase(url)} })

\* s.replace(/\/$/, '')
stripTrailingSlash(s) ==
  IF s # "" /\ CharAt(s, Len(s)) = "/" THEN SubSeq(s, 1, Len(s) - 1) ELSE s

\* s.replace(/\?.*$/, '') and s.replace(/#.*$/, ''): cut s at the first c
cutAt(s, c) == IF indexOf(s, c) = 0 THEN s ELSE SubSeq(s, 1, indexOf(s, c) - 1)

HostPatterns == <<"facebook.com", "fb.com", "m.facebook.com">>

BusinessSuffixes == Alts(<<"service", "aps", "as", "ltd", "inc", "llc", "corp">>, TRUE)

DanishSuffixes == Alts(<<"service", "aps">>, TRUE)

\* the handle captured by the first host pattern that matches, cleaned; None if none
mainHandleOf(facebookUrl) ==
  The({ LET hit == {k \in 1..Len(HostPatterns) : captures[k] # None}
        IN IF hit = {} THEN None
           ELSE LET m == captures[CHOOSE a \in hit : \A b \in hit : a <= b][1]
                IN Some(cutAt(cutAt(stripTrailingSlash(m), "?"), "#"))
        : captures \in {[k \in 1..Len(HostPatterns) |->
                           hostCapture(facebookUrl, HostPatterns[k])]} })

\* the handle variations built from the main handle, before deduplication
handleVariations(mainHandle) ==
  << mainHandle,
     toLowerCase(mainHandle),
     keepChars(mainHandle, UpperLetters \cup LowerLetters \cup Digits),
     trim(removeAll(mainHandle, BusinessSuffixes)),
     mainHandle \o "insta",
     mainHandle \o "_official",
     mainHandle \o ".official",
     mainHandle \o "_ig",
     removeAll(mainHandle, DanishSuffixes) >>

\* extractSocialHandles falling back to the URL itself when no host pattern matches
extractSocialHandles_rawUrl(facebookUrl) ==
  IF facebookUrl = None \/ facebookUrl = Some("") THEN <<>>
  ELSE The({ IF mainHandle = None \/ mainHandle = Some("")
             THEN filterLonger(<<facebookUrl[1]>>, 2)
             ELSE filterLonger(dedupe(handleVariations(mainHandle[1]), {}), 2)
             : mainHandle \in {mainHandleOf(facebookUrl[1])} })

\* extractSocialHandles(facebookUrl); facebookUrl is None when absent
extractSocialHandles(facebookUrl) ==
  IF facebookUrl = None \/ facebookUrl = Some("") THEN <<>>
  ELSE The({ IF mainHandle = None \/ mainHandle = Some("") THEN <<>>
             ELSE filterLonger(dedupe(handleVariations(mainHandle[1]), {}), 2)
             : mainHandle \in {mainHandleOf(facebookUrl[1])} })


(***************************************************************************)
(* The scrape result and the pieces of the handle-verified ScrapingBee     *)
(* route's scrapeFacebookAdsWithScrapingBee                                 *)
(***************************************************************************)

\* the object a scrape function returns
ScrapeResult(found, activeAds, newAds, error) ==
  [found |-> found, activeAds |-> activeAds, newAds |-> newAds, error |-> error]

\* a not-found result that has lost its error
NotFound_silent(error) == ScrapeResult(FALSE, None, None, None)

NotFound(error) == ScrapeResult(FALSE, None, None, Some(error))

\* Math.ceil(n * num / den) for the ratios 0.15, 0.25, 0.4
CeilRatio(n, num, den) == (n * num + den - 1) \div den

\* Math.floor(n * num / den)
FloorRatio(n, num, den) == (n * num) \div den

\* companyName.trim().replace(/[^\w\s]/g, '').trim()
cleanCompanyNameOf(companyName) ==
  trim(keepChars(trim(companyName), WordChars \cup SpaceChars))

\* s.replace(/^prefix/, '')
stripPrefix(s, prefix) ==
  IF StartsAt(s, prefix, 1) THEN SubSeq(s, Len(prefix) + 1, Len(s)) ELSE s

\* websiteUrl.replace(/^https?:\/\//, '').replace(/^www\./, '').split('/')[0].toLowerCase()
websiteDomainOf(websiteUrl) ==
  LET noScheme == stripPrefix(stripPrefix(websiteUrl, "http://"), "https://")
      noWww    == stripPrefix(noScheme, "www.")
  IN toLowerCase(cutAt(noWww, "/"))

noResultsIndicators ==
  << "no results found", "we couldn't find any results", "try a different search",
     "no ads to show", "no results", "nothing to show here", "no active ads",
     "try different keywords", "no ads match your search" >>

\* the indicator test with equality in place of includes
hasNoResultsIn_equal(bodyText, indicators) ==
  \E k \in 1..Len(indicators) : bodyText = indicators[k]

\* indicators.some(indicator => bodyText.includes(indicator))
hasNoResultsIn(bodyText, indicators) ==
  \E k \in 1..Len(indicators) : includes(bodyText, indicators[k])

\* the seven patterns tried for one handle
handlePatterns(handle) ==
  << "@" \o toLowerCase(handle),
     "@" \o handle,
     toLowerCase(handle),
     "facebook.com/" \o toLowerCase(handle),
     "/" \o toLowerCase(handle),
     "\"" \o toLowerCase(handle) \o "\"",
     "\"" \o handle \o "\"" >>

\* some pattern of the handle occurs in the lower-cased or in the raw document
handleOccurs(handle, bodyText, htmlContent) ==
  \E patterns \in {handlePatterns(handle)} :
     \E k \in 1..7 :
        \/ includes(bodyText, patterns[k])
        \/ includes(htmlContent, patterns[k])

\* a handle loop that goes through the whole list and keeps the last match
matchedHandleOf_last(socialHandles, bodyText, htmlContent) ==
  The({ IF hit = {} THEN None
        ELSE Some(socialHandles[CHOOSE a \in hit : \A b \in hit : a >= b])
        : hit \in {{k \in 1..Len(socialHandles) :
                      handleOccurs(socialHandles[k], bodyText, htmlContent)}} })

\* the handle loop: the first handle of the list with a pattern in the
\* document (matchedHandle), None when socialHandleVerified stays false
matchedHandleOf(socialHandles, bodyText, htmlContent) ==
  The({ IF hit = {} THEN None
        ELSE Some(socialHandles[CHOOSE a \in hit : \A b \in hit : a <= b])
        : hit \in {{k \in 1..Len(socialHandles) :
                      handleOccurs(socialHandles[k], bodyText, htmlContent)}} })

SerpItemDiv == Run("<div", <<"data-testid=\"serp-item\"">>, ">", TRUE, TRUE)

\* the handle count taken as the number of "sponsored" markers of the document
verifiedAdCountOf_markers(htmlContent, socialHandles) ==
  matchCount(htmlContent, Lit("sponsored", TRUE))

\* the number of serp-item blocks that hold a handle and "sponsored" or "ad"
verifiedAdCountOf(htmlContent, socialHandles) ==
  The({ Cardinality({b \in 1..Len(contentBlocks) :
          \E blockLower \in {toLowerCase(contentBlocks[b])} :
             /\ \E k \in 1..Len(socialHandles) :
                   \/ includes(blockLower, "@" \o toLowerCase(socialHandles[k]))
                   \/ includes(blockLower, toLowerCase(socialHandles[k]))
             /\ (includes(blockLower, "sponsored") \/ includes(blockLower, "ad"))})
        : contentBlocks \in {split(htmlContent, SerpItemDiv)} })

\* the number of sections between company-name mentions with "sponsored" or "ad"
sponsoredNearCompanyOf(htmlContent, cleanCompanyName) ==
  The({ Cardinality({k \in 1..Len(companyMentions) :
          \E section \in {toLowerCase(companyMentions[k])} :
             includes(section, "sponsored") \/ includes(section, "ad")})
        : companyMentions \in {split(htmlContent,
                                     Lit(toLowerCase(cleanCompanyName), TRUE))} })

\* the number of sections between domain mentions with "sponsored"
sponsoredNearDomainOf(htmlContent, websiteDomain) ==
  The({ Cardinality({k \in 1..Len(domainMentions) :
          includes(toLowerCase(domainMentions[k]), "sponsored")})
        : domainMentions \in {split(htmlContent, Lit(websiteDomain, TRUE))} })

\* Math.floor(Math.min(Math.max(totalSponsored, totalAdLabels) * 0.1, 15))
generalCountOf(htmlContent) ==
  LET totalSponsored == matchCount(htmlContent, Lit("sponsored", TRUE))
      totalAdLabels  == matchCount(htmlContent, AdLabel)
  IN Min(Max(totalSponsored, totalAdLabels) \div 10, 15)

\* which counting branch the if-chain takes
countingBranch(socialHandleVerified, matchedHandle, domainAppears) ==
  IF socialHandleVerified /\ matchedHandle # None /\ matchedHandle # Some("") THEN "handle"
  ELSE IF domainAppears THEN "domain"
  ELSE "general"

\* the verification message with the name tested before the domain
verificationMessage_nameFirst(socialHandleVerified, matchedHandle, domainAppears, companyNameAppears, websiteDomain) ==
  IF socialHandleVerified
    THEN "OK Verified with social handle @" \o matchedHandle[1]
  ELSE IF companyNameAppears
    THEN "WARN Verified by company name only - results may include similar companies"
  ELSE IF domainAppears
    THEN "OK Verified with website domain " \o websiteDomain
  ELSE "WARN Low verification confidence - please review results carefully"

\* the verification status message; the source starts the two verified
\* messages with a check-mark emoji and the two others with a warning emoji,
\* written OK and WARN here
verificationMessage(socialHandleVerified, matchedHandle, domainAppears, companyNameAppears, websiteDomain) ==
  IF socialHandleVerified
    THEN "OK Verified with social handle @" \o matchedHandle[1]
  ELSE IF domainAppears
    THEN "OK Verified with website domain " \o websiteDomain
  ELSE IF companyNameAppears
    THEN "WARN Verified by company name only - results may include similar companies"
  ELSE "WARN Low verification confidence - please review results carefully"

\* new RegExp(text, 'gi') throws a SyntaxError (an unterminated group)
regExpThrows(text) == includes(text, "(") /\ ~includes(text, ")")

\* the ratio with strict thresholds
newAdsRatio_strict(dateRange) ==
  IF dateRange < 7 THEN 15 ELSE IF dateRange < 30 THEN 25 ELSE 40

\* dateRange <= 7 ? 0.15 : dateRange <= 30 ? 0.25 : 0.4, in hundredths
newAdsRatio(dateRange) == IF dateRange <= 7 THEN 15 ELSE IF dateRange <= 30 THEN 25 ELSE 40


\* what the scan of one document establishes (the values the route logs)
evidenceOf(companyName, websiteUrl, facebookUrl, htmlContent) ==
  The({ The({ [socialHandles        |-> socialHandles,
               cleanCompanyName     |-> cleanCompanyName,
               hasNoResults         |-> hasNoResultsIn(bodyText, noResultsIndicators),
               websiteDomain        |-> websiteDomain,
               domainAppears        |-> includes(bodyText, websiteDomain),
               companyNameAppears   |-> \/ includes(bodyText, toLowerCase(cleanCompanyName))
                                        \/ includes(bodyText, toLowerCase(companyName)),
               socialHandleVerified |-> matchedHandle # None,
               matchedHandle        |-> matchedHandle]
              : matchedHandle \in
                  {IF Len(socialHandles) > 0
                   THEN matchedHandleOf(socialHandles, bodyText, htmlContent)
                   ELSE None} })
        : socialHandles \in {IF facebookUrl # None /\ facebookUrl # Some("")
                              THEN extractSocialHandles(facebookUrl) ELSE <<>>},
          cleanCompanyName \in {cleanCompanyNameOf(companyName)},
          bodyText \in {toLowerCase(htmlContent)},
          websiteDomain \in {websiteDomainOf(websiteUrl)} })

\* building the domain RegExp of the domain branch throws
countingThrows(ev) ==
  /\ countingBranch(ev.socialHandleVerified, ev.matchedHandle, ev.domainAppears) = "domain"
  /\ regExpThrows(ev.websiteDomain)

\* the ad count of the counting branch taken, before the zero test
adCountOf(ev, htmlContent) ==
  LET branch == countingBranch(ev.socialHandleVerified, ev.matchedHandle, ev.domainAppears)
  IN CASE branch = "handle" ->
            The({ IF verifiedAdCount > 0 THEN verifiedAdCount
                  ELSE Min(sponsoredNearCompanyOf(htmlContent, ev.cleanCompanyName), 20)
                  : verifiedAdCount \in {verifiedAdCountOf(htmlContent, ev.socialHandles)} })
       [] branch = "domain" ->
            Min(sponsoredNearDomainOf(htmlContent, ev.websiteDomain), 30)
       [] OTHER -> generalCountOf(htmlContent)

\* the ad count after the low-confidence cap
cappedAdCount(ev, counted) ==
  IF ~ev.socialHandleVerified /\ ~ev.domainAppears /\ counted > 10
  THEN Min(counted, 10) ELSE counted

\* lines 120-308: the result computed from a fetched document
analyzeHtml(companyName, websiteUrl, facebookUrl, dateRange, htmlContent) ==
  The({ IF ev.hasNoResults THEN NotFound("No ads found in Facebook Ads Library")
        ELSE IF countingThrows(ev)
        THEN NotFound("Scraping failed: Invalid regular expression")
        ELSE The({ IF counted = 0
                   THEN (IF ev.companyNameAppears \/ ev.domainAppears
                         THEN NotFound("Found \"" \o companyName
                                         \o "\" but no active ads detected")
                         ELSE NotFound("Company \"" \o companyName
                                         \o "\" not found in Facebook Ads Library"))
                   ELSE LET adCount == cappedAdCount(ev, counted)
                            estimatedNewAds ==
                              CeilRatio(adCount, newAdsRatio(dateRange), 100)
                            message == verificationMessage(ev.socialHandleVerified,
                                         ev.matchedHandle, ev.domainAppears,
                                         ev.companyNameAppears, ev.websiteDomain)
                        IN ScrapeResult(TRUE, Some(adCount), Some(estimatedNewAds),
                              IF StartsAt(message, "WARN", 1) THEN Some(message) ELSE None)
                   : counted \in {adCountOf(ev, htmlContent)} })
        : ev \in {evidenceOf(companyName, websiteUrl, facebookUrl, htmlContent)} })

\* scrapeFacebookAdsWithScrapingBee of the handle-verified route.  resp is the
\* outcome of the axios request: kind "html" (a string body), "object" (a body
\* that is no string) or "error" (the request rejects; status 0: no response)
scrapeFacebookAdsWithScrapingBee(companyName, websiteUrl, facebookUrl, dateRange, resp) ==
  CASE resp.kind = "html" ->
         IF resp.data = ""
         THEN NotFound("Scraping failed: No HTML content received from ScrapingBee")
         ELSE analyzeHtml(companyName, websiteUrl, facebookUrl, dateRange, resp.data)
    [] resp.kind = "object" ->
         NotFound("Scraping failed: No HTML content received from ScrapingBee")
    [] OTHER ->
         IF resp.status = 401 THEN NotFound("Invalid ScrapingBee API key")
         ELSE IF resp.status = 429 THEN NotFound("ScrapingBee rate limit exceeded")
         ELSE IF resp.status = 403 THEN NotFound("ScrapingBee: Insufficient credits")
         ELSE NotFound("Scraping failed: " \o resp.message)


(***************************************************************************)
(* scrapeFacebookAdsWithBrowserless of app/api/analyze/route.ts            *)
(***************************************************************************)

noResultsIndicators_analyze ==
  << "no results found", "we couldn't find any results", "try a different search",
     "no ads to show", "no results", "nothing to show here", "no active ads",
     "try different keywords" >>

\* /data-testid="[^"]*ad[^"]*"/gi
DataTestAd == Run("data-testid=\"", <<"ad">>, "\"", TRUE, TRUE)

\* /<article[^>]*>/gi
ArticleTag == Run("<article", <<>>, ">", TRUE, TRUE)

\* the final ad count of the three counting methods and the article fallback
adCount_analyze(htmlContent) ==
  The({ IF highest < 3
        THEN Max(highest, Min(matchCount(htmlContent, ArticleTag), 20))
        ELSE highest
        : highest \in
            {LET sponsoredMatches == matchCount(htmlContent, Lit("sponsored", TRUE))
                 adLabelMatches   == matchCount(htmlContent, AdLabel)
                 dataTestMatches  == matchCount(htmlContent, DataTestAd)
             IN Max(Max(sponsoredMatches, adLabelMatches), dataTestMatches)} })

\* lines 67-173: the result computed from a fetched document
analyzeHtml_analyze(companyName, websiteUrl, dateRange, htmlContent) ==
  The({ The({ IF hasNoResultsIn(bodyText, noResultsIndicators_analyze)
              THEN NotFound("No ads found in Facebook Ads Library")
              ELSE IF adCount = 0
              THEN (IF companyNameAppears
                    THEN NotFound("Found \"" \o companyName
                                    \o "\" but no active ads detected")
                    ELSE NotFound("Company \"" \o companyName
                                    \o "\" not found in Facebook Ads Library"))
              ELSE ScrapeResult(TRUE, Some(adCount),
                     Some(CeilRatio(adCount, newAdsRatio(dateRange), 100)),
                     IF ~domainAppears /\ ~companyNameAppears
                     THEN Some("Found " \o ToString(adCount)
                                 \o " ads but verification uncertain - please review results")
                     ELSE None)
              : domainAppears \in {includes(bodyText, websiteDomainOf(websiteUrl))},
                companyNameAppears \in
                  {\/ includes(bodyText, toLowerCase(cleanCompanyNameOf(companyName)))
                   \/ includes(bodyText, toLowerCase(companyName))},
                adCount \in {adCount_analyze(htmlContent)} })
        : bodyText \in {toLowerCase(htmlContent)} })

\* scrapeFacebookAdsWithBrowserless of analyze/route.ts; resp.kind "html": the
\* body is [{html: data}]
scrapeFacebookAdsWithBrowserless_analyze(companyName, websiteUrl, dateRange, resp) ==
  CASE resp.kind = "html" ->
         IF resp.data = ""
         THEN NotFound("Scraping failed: No HTML content received from Browserless")
         ELSE analyzeHtml_analyze(companyName, websiteUrl, dateRange, resp.data)
    [] resp.kind = "object" ->
         NotFound("Scraping failed: No HTML content received from Browserless")
    [] OTHER ->
         IF resp.status = 429 THEN NotFound("Rate limit exceeded - please wait and try again")
         ELSE NotFound("Scraping failed: " \o resp.message)

(***************************************************************************)
(* scrapeFacebookAdsWithBrowserless of the LLM-verified Browserless route  *)
(***************************************************************************)

noResultsIndicators_verify ==
  << "no results found", "we couldn't find any results", "try a different search",
     "no ads to show", "no results" >>

adPatterns ==
  << Lit("data-testid=\"serp-item\"", FALSE), Lit("data-testid=\"ad-card\"", FALSE),
     Lit("role=\"article\"", FALSE), Lit("sponsored", TRUE), Lit("ad by", TRUE) >>

fbAdPatterns ==
  << Run("class=\"", <<"x1i10hfl">>, "\"", TRUE, FALSE),
     Run("data-pagelet", <<"ad">>, ">", FALSE, TRUE),
     Run("<div", <<"data-", "ad">>, ">", TRUE, TRUE) >>

\* the match count of the first pattern of the list that matches, 0 if none does
firstMatchCount(htmlContent, patterns) ==
  The({ LET hit == {k \in 1..Len(patterns) : counts[k] > 0}
        IN IF hit = {} THEN 0
           ELSE counts[CHOOSE a \in hit : \A b \in hit : a <= b]
        : counts \in {[k \in 1..Len(patterns) |->
                        matchCount(htmlContent, patterns[k])]} })

\* dateRange <= 7 ? 0.2 : dateRange <= 30 ? 0.35 : 0.5, in hundredths
newAdsRatio_verify(dateRange) ==
  IF dateRange <= 7 THEN 20 ELSE IF dateRange <= 30 THEN 35 ELSE 50

\* lines 65-161: the result computed from a fetched document
analyzeHtml_verify(companyName, dateRange, htmlContent) ==
  The({ The({ The({ IF hasNoResultsIn(bodyText, noResultsIndicators_verify)
                    THEN NotFound("Company not found in Facebook Ads Library")
                    ELSE IF ~companyNameAppears /\ byPatterns = 0
                    THEN NotFound("Company name not found in search results")
                    ELSE ScrapeResult(adCount > 0,
                           IF adCount > 0 THEN Some(adCount) ELSE None,
                           IF adCount > 0
                           THEN Some(FloorRatio(adCount, newAdsRatio_verify(dateRange), 100))
                           ELSE None,
                           None)
                    : adCount \in
                        {IF byPatterns = 0 /\ companyNameAppears
                         THEN Min(matchCount(htmlContent,
                                    Alts(<<"sponsored", "advertisement", "promote">>, TRUE)),
                                  20)
                         ELSE byPatterns} })
              : byPatterns \in
                  {The({ IF byAdPatterns = 0
                         THEN Min(firstMatchCount(htmlContent, fbAdPatterns), 100)
                         ELSE byAdPatterns
                         : byAdPatterns \in {firstMatchCount(htmlContent, adPatterns)} })},
                companyNameAppears \in {includes(bodyText, toLowerCase(companyName))} })
        : bodyText \in {toLowerCase(htmlContent)} })

\* scrapeFacebookAdsWithBrowserless of the LLM-verified route
scrapeFacebookAdsWithBrowserless_verify(companyName, dateRange, resp) ==
  CASE resp.kind = "html" ->
         IF resp.data = ""
         THEN NotFound("Scraping failed: No HTML content received from Browserless")
         ELSE analyzeHtml_verify(companyName, dateRange, resp.data)
    [] resp.kind = "object" ->
         NotFound("Scraping failed: No HTML content received from Browserless")
    [] OTHER -> NotFound("Scraping failed: " \o resp.message)


(***************************************************************************)
(* Inputs: companies, documents, date ranges                               *)
(***************************************************************************)

\* a company record of a request; named is FALSE for a record whose
\* companyName is missing
Company(companyName, websiteUrl, facebookUrl) ==
  [companyName |-> companyName, websiteUrl |-> websiteUrl, facebookUrl |-> facebookUrl,
   named |-> TRUE]

Acme == Company("Acme Corp", "https://acme.com", Some("https://facebook.com/acmecorp"))

AcmeNoSocial == Company("Acme Corp", "https://www.acme.com/shop", None)

AcmeBadSocial == Company("Acme Corp", "https://acme.com", Some("https://twitter.com/acmecorp"))

ZedNoSite == Company("Zed & Co.", "", Some("https://fb.com/Zed.ApS/?ref=1"))

XasMobile == Company("Xas Ltd", "https://xas.dk", Some("https://m.facebook.com/Xas?ref=1#top"))

ScanCompanies == {Acme, AcmeNoSocial, AcmeBadSocial, ZedNoSite}

DateRanges == {7, 8, 30, 31}

TenSponsored ==
  "sponsored Sponsored sponsored sponsored sponsored sponsored sponsored sponsored sponsored sponsored "

AdCard == "<div data-testid=\"serp-item\">@acmecorp Sponsored "

\* the pieces documents are made of
Frags ==
  { "sponsored ", TenSponsored, "No results found ", "@acmecorp ", "acme.com ",
    "Acme Corp sponsored ", "<div data-testid=\"serp-item\">", ">Ad< ", "zed.aps ",
    AdCard }

\* s repeated n times
RECURSIVE Repeated(_, _)
Repeated(s, n) == IF n = 0 THEN "" ELSE s \o Repeated(s, n - 1)

\* a results page of twenty-one cards, each with the handle and "Sponsored"
CardWall == Repeated(AdCard, 21)

\* the number of pieces of a document
MaxFrags == 2

RECURSIVE DocsOfLen(_)
DocsOfLen(n) == IF n = 0 THEN {""} ELSE {f \o d : f \in Frags, d \in DocsOfLen(n - 1)}

Docs == UNION {DocsOfLen(n) : n \in 0..MaxFrags} \cup {CardWall}

\* the outcome of a request to the scraping provider: a body that is a
\* string, a body that is none, or a rejected request (status 0: no response)
Html(data) == [kind |-> "html", data |-> data, status |-> 200, message |-> ""]

ObjectBody == [kind |-> "object", data |-> "", status |-> 200, message |-> ""]

\* the outcome of a rejected axios request
Failure(status, message) ==
  [kind |-> "error", data |-> "", status |-> status, message |-> message]

(***************************************************************************)
(* JavaScript values and JSON.parse, for the replies of the LLM            *)
(***************************************************************************)

\* a JavaScript value: t is its type, n a number's integer part, s a string
\* (or a number's fraction digits), kids the members of an object or array
JsValue(t, n, s, kids) == [t |-> t, n |-> n, s |-> s, kids |-> kids]

Undefined == JsValue("undefined", 0, "", <<>>)

\* a member of an object: its name and its value
Member(k, v) == [k |-> k, v |-> v]

Null == JsValue("null", 0, "", <<>>)

Bool(b) == JsValue("boolean", IF b THEN 1 ELSE 0, "", <<>>)

Num(n) == JsValue("number", n, "", <<>>)

Str(s) == JsValue("string", 0, s, <<>>)

\* the value || undefined, !value and if (value) conversions
Truthy(v) ==
  CASE v.t = "boolean" -> v.n = 1
    [] v.t = "number"  -> v.n # 0 \/ v.s # ""
    [] v.t = "string"  -> v.s # ""
    [] v.t \in {"object", "array"} -> TRUE
    [] OTHER -> FALSE

OrUndefined(v) == The({IF Truthy(value) THEN value ELSE Undefined : value \in {v}})

\* object.key: the value of the last member of that name, undefined if none
Get(object, key) ==
  The({ IF object.t # "object" \/ at = {} THEN Undefined
        ELSE object.kids[CHOOSE a \in at : \A b \in at : a >= b].v
        : at \in {{k \in 1..Len(object.kids) : object.kids[k].k = key}} })

DigitValue ==
  [c \in Digits |->
     CASE c = "0" -> 0 [] c = "1" -> 1 [] c = "2" -> 2 [] c = "3" -> 3 [] c = "4" -> 4
       [] c = "5" -> 5 [] c = "6" -> 6 [] c = "7" -> 7 [] c = "8" -> 8 [] c = "9" -> 9]

RECURSIVE DigitsEnd(_, _)
\* the position after the run of digits that starts at i
DigitsEnd(t, i) ==
  IF i <= Len(t) /\ CharAt(t, i) \in Digits THEN DigitsEnd(t, i + 1) ELSE i

RECURSIVE NumberOf(_)
\* the number a string of digits denotes
NumberOf(digits) ==
  IF digits = "" THEN 0
  ELSE NumberOf(SubSeq(digits, 1, Len(digits) - 1)) * 10
         + DigitValue[CharAt(digits, Len(digits))]

Parsed(val, next) == [ok |-> TRUE, val |-> val, next |-> next]

NoParse == [ok |-> FALSE, val |-> Undefined, next |-> 0]

\* a JSON string without escapes that starts at position i
parseString(t, i) ==
  IF i > Len(t) \/ CharAt(t, i) # "\"" THEN NoParse
  ELSE The({ IF e = 0 \/ includes(SubSeq(t, i + 1, e - 1), "\n") THEN NoParse
             ELSE Parsed(Str(SubSeq(t, i + 1, e - 1)), e + 1)
             : e \in {indexOfFrom(t, "\"", i + 1)} })

\* a JSON number that starts at position i: -? digits (. digits)?
parseNumber(t, i) ==
  The({ The({ IF e = from \/ (e - from > 1 /\ CharAt(t, from) = "0")
                          \/ (frac /\ fe = e + 1)
              THEN NoParse
              ELSE Parsed(JsValue("number",
                            IF neg THEN 0 - NumberOf(SubSeq(t, from, e - 1))
                            ELSE NumberOf(SubSeq(t, from, e - 1)),
                            IF frac THEN SubSeq(t, e + 1, fe - 1) ELSE "", <<>>), fe)
              : frac \in {e <= Len(t) /\ CharAt(t, e) = "."},
                fe \in {IF e <= Len(t) /\ CharAt(t, e) = "."
                        THEN DigitsEnd(t, e + 1) ELSE e},
                from \in {IF neg THEN i + 1 ELSE i} })
        : neg \in {i <= Len(t) /\ CharAt(t, i) = "-"},
          e \in {DigitsEnd(t, IF i <= Len(t) /\ CharAt(t, i) = "-" THEN i + 1 ELSE i)} })

RECURSIVE parseValue(_, _), parseMembers(_, _, _), parseElements(_, _, _)
\* the JSON value that starts at position i of t
parseValue(t, i) ==
  IF i > Len(t) THEN NoParse
  ELSE CASE CharAt(t, i) = "{" ->
              The({ IF j <= Len(t) /\ CharAt(t, j) = "}"
                    THEN Parsed(JsValue("object", 0, "", <<>>), j + 1)
                    ELSE parseMembers(t, j, <<>>)
                    : j \in {SkipSpaces(t, i + 1)} })
         [] CharAt(t, i) = "[" ->
              The({ IF j <= Len(t) /\ CharAt(t, j) = "]"
                    THEN Parsed(JsValue("array", 0, "", <<>>), j + 1)
                    ELSE parseElements(t, j, <<>>)
                    : j \in {SkipSpaces(t, i + 1)} })
         [] CharAt(t, i) = "\"" -> parseString(t, i)
         [] StartsAt(t, "true", i)  -> Parsed(Bool(TRUE), i + 4)
         [] StartsAt(t, "false", i) -> Parsed(Bool(FALSE), i + 5)
         [] StartsAt(t, "null", i)  -> Parsed(Null, i + 4)
         [] OTHER -> parseNumber(t, i)

\* the members of an object from position j on, after those of acc
parseMembers(t, j, acc) ==
  The({ IF ~key.ok THEN NoParse
        ELSE The({ IF c > Len(t) \/ CharAt(t, c) # ":" THEN NoParse
                   ELSE The({ IF ~v.ok THEN NoParse
                              ELSE The({ IF m > Len(t) THEN NoParse
                                         ELSE IF CharAt(t, m) = "}"
                                         THEN Parsed(JsValue("object", 0, "",
                                                Append(acc, Member(key.val.s, v.val))),
                                                m + 1)
                                         ELSE IF CharAt(t, m) = ","
                                         THEN parseMembers(t, SkipSpaces(t, m + 1),
                                                Append(acc, Member(key.val.s, v.val)))
                                         ELSE NoParse
                                         : m \in {SkipSpaces(t, v.next)} })
                              : v \in {parseValue(t, SkipSpaces(t, c + 1))} })
                   : c \in {SkipSpaces(t, key.next)} })
        : key \in {parseString(t, j)} })

\* the elements of an array from position j on, after those of acc
parseElements(t, j, acc) ==
  The({ IF ~v.ok THEN NoParse
        ELSE The({ IF m > Len(t) THEN NoParse
                   ELSE IF CharAt(t, m) = "]"
                   THEN Parsed(JsValue("array", 0, "", Append(acc, Member("", v.val))),
                               m + 1)
                   ELSE IF CharAt(t, m) = ","
                   THEN parseElements(t, SkipSpaces(t, m + 1),
                                      Append(acc, Member("", v.val)))
                   ELSE NoParse
                   : m \in {SkipSpaces(t, v.next)} })
        : v \in {parseValue(t, j)} })

\* JSON.parse(text): Some(value), or None when it throws a SyntaxError
JSONParse(text) ==
  The({ IF r.ok /\ SkipSpaces(text, r.next) = Len(text) + 1 THEN Some(r.val) ELSE None
        : r \in {parseValue(text, SkipSpaces(text, 1))} })

\* the code fences the routes strip from a reply, the regular expression
\* fence json \n? | \n? fence; the three backquotes of a fence cannot be written
\* in a string here and are written as three apostrophes
CodeFence == Alts(<<"'''json\n", "'''json", "\n'''", "'''">>, FALSE)

\* String.prototype.substring(from, to) on 0-based indexes, which swaps its
\* arguments when from > to
substring(s, from, to) ==
  LET a == Max(0, Min(Min(from, to), Len(s)))
      b == Max(0, Min(Max(from, to), Len(s)))
  IN SubSeq(s, a + 1, b)

\* the text of the reply from its first opening brace to its last closing
\* brace, parsed: Some(value), or None when there is no brace pair or
\* JSON.parse throws
replyObject(responseText) ==
  The({ LET jsonStart == indexOf(cleanedResponse, "{") - 1
            jsonEnd   == lastIndexOf(cleanedResponse, "}") - 1
        IN IF jsonStart # -1 /\ jsonEnd # -1
           THEN JSONParse(substring(cleanedResponse, jsonStart, jsonEnd + 1))
           ELSE None
        : cleanedResponse \in {trim(removeAll(responseText, CodeFence))} })

(***************************************************************************)
(* The batch handlers: POST of the handle-verified ScrapingBee route       *)
(* ("handle"), of the LLM-verified Browserless route ("verify"), of the    *)
(* endpoint-probing route with its AI-only analysis ("aiOnly") and of      *)
(* analyze-ads/route.js ("multi")                                          *)
(***************************************************************************)

Obj(members) == JsValue("object", 0, "", members)

\* a count or an error string of a scrape result as a JavaScript value
JsOfCount(count) == IF count = None THEN Null ELSE Num(count[1])

JsOfError(error) == IF error = None THEN Null ELSE Str(error[1])

\* company.companyName as a JavaScript value
JsOfName(company) == IF company.named THEN Str(company.companyName) ELSE Undefined

\* the CompanyResult literal the single-platform routes push
CompanyResult(company, activeAds, newAds, found, error) ==
  Obj(<< Member("companyName", JsOfName(company)),
         Member("websiteUrl", Str(company.websiteUrl)),
         Member("activeAds", activeAds),
         Member("newAds", newAds),
         Member("found", found),
         Member("error", error) >>)

\* the CompanyResult made of a scrape result: error is scrapingResult.error || undefined
ResultOfScrape(company, scrapingResult) ==
  CompanyResult(company, JsOfCount(scrapingResult.activeAds),
                JsOfCount(scrapingResult.newAds), Bool(scrapingResult.found),
                OrUndefined(JsOfError(scrapingResult.error)))

\* the CompanyResult of a per-company catch block
FailedResult(company, message) ==
  CompanyResult(company, Null, Null, Bool(FALSE), Str(message))

PlatformNames == <<"facebook", "instagram", "bing", "tiktok">>

\* the default structure of analyze-ads/route.js, without its error member
DefaultMembers(company) ==
  << Member("companyName", JsOfName(company)),
     Member("websiteUrl", Str(company.websiteUrl)),
     Member("verified", Bool(FALSE)),
     Member("platforms",
            Obj([p \in 1..4 |->
                   Member(PlatformNames[p],
                          Obj(<< Member("found", Bool(FALSE)),
                                 Member("activeAds", Num(0)),
                                 Member("newAds", Num(0)) >>))])) >>

\* results.unshift(value)
Pushed_front(list, src, value) == <<[src |-> src, value |-> value]>> \o list

\* results.push(value); src is the index of the company the value was made for
Pushed(list, src, value) == Append(list, [src |-> src, value |-> value])

\* the outcome of a chat completion: a reply with content, a reply whose
\* content is null, or a rejected request
Reply(text) == [kind |-> "content", text |-> text, message |-> ""]

NullReply == [kind |-> "null", text |-> "", message |-> ""]

LlmFailure(message) == [kind |-> "throws", text |-> "", message |-> message]

NoResponse == [status |-> 0, error |-> "", companies |-> <<>>]

ErrorResponse(status, error) == [status |-> status, error |-> error, companies |-> <<>>]

\* the four Browserless endpoints of the probing route, in the order tried
endpointsToTry == <<"function", "pdf", "screenshot", "content">>

VARIABLES
  request,         \* the body of the POST and the route that receives it
  pc,              \* where the handler stands
  i,               \* the index of the company of the current iteration
  endpoint,        \* the index of the endpoint being probed
  scrapingResult,  \* the scrape result the verify route holds across the LLM call
  results,         \* the results array
  response,        \* the HTTP response, status 0 while there is none
  thrown,          \* the indexes of the companies for which a stage of the
                   \* analysis (fetch, scan, estimate, LLM call) has thrown
  log,             \* the calls, pushes and waits of the handler, in order
  twin,            \* the results array of a second run of the same request that
                   \* is given the same responses by the provider and the LLM
  scanIn,          \* the input of a single scan
  scanPc,          \* "input" before the scan, "done" after it
  scanOut,         \* what the scan established and returned
  client           \* the client page: its form, its React state, the state
                   \* updates not yet rendered and its handleAnalyze calls

batchVars == <<request, pc, i, endpoint, scrapingResult, results, response, thrown, log, twin>>

scanVars == <<scanIn, scanPc, scanOut>>

vars == <<request, pc, i, endpoint, scrapingResult, results, response, thrown, log, twin,
          scanIn, scanPc, scanOut, client>>

(***************************************************************************)
(* The client pages: HomePage (part_002), which posts to /api/analyze, and *)
(* AdsAnalyzer (analyze/route.ts 330-), which posts to /api/analyze-ads    *)
(***************************************************************************)

\* the handleAnalyze calls of one run of the page, clicks on the disabled
\* button included
MaxClicks == 3

\* a row of the companies form (companyName and websiteUrl in HomePage, name
\* and url in AdsAnalyzer)
Row(name, url) == [name |-> name, url |-> url]

\* what the user may have typed into the form
ApiKeys == {"", " ", "sk-test"}

Forms ==
  { <<Row("", ""), Row("", "")>>,
    <<Row("Acme", "https://acme.com"), Row("", "")>>,
    <<Row(" ", "https://acme.com"), Row("Zed", " ")>> }

\* a page before its first click: the useState initial values
NewPage(variant, apiKey, companies) ==
  [ variant  |-> variant,
    apiKey   |-> apiKey,
    companies |-> companies,
    loading  |-> FALSE,     \* isAnalyzing in HomePage, loading in AdsAnalyzer
    results  |-> None,      \* Some(n): the data of the response to call n
    error    |-> "",        \* AdsAnalyzer's error state
    alert    |-> "",        \* the text of HomePage's last alert
    queue    |-> <<>>,      \* the state updates React has not rendered yet
    calls    |-> <<>>,      \* the handleAnalyze calls: where each stands and
                            \* the path it took
    blocked  |-> 0 ]        \* the clicks on the button while it was disabled

NoPage == NewPage("none", "", <<>>)

\* a company whose name is blank, and one whose domain is no valid regular expression
Blank == Company("  ", "https://blank.example", None)

BadDomain == Company("Bad (Co", "https://bad(.com", None)

\* a record without companyName
Nameless == [Company("", "https://nameless.example", None) EXCEPT !.named = FALSE]

BatchCompanies == {Acme, Blank, BadDomain, Nameless}

\* the number of companies of a request
MaxCompanies == 2

RECURSIVE ListsOfLen(_)
ListsOfLen(n) ==
  IF n = 0 THEN {<<>>} ELSE {<<c>> \o l : c \in BatchCompanies, l \in ListsOfLen(n - 1)}

CompanyLists == UNION {ListsOfLen(n) : n \in 0..MaxCompanies}

BatchDateRanges == {7, 31}

Routes == {"handle", "analyze", "verify", "aiOnly", "multi", "puppeteer"}

\* what the scraping provider answers to a search request
FetchOutcomes ==
  { Html("Acme Corp " \o TenSponsored \o "@acmecorp "),
    Html("No results found "),
    Html("bad(.com sponsored "),
    ObjectBody,
    Failure(401, "Request failed with status code 401"),
    Failure(403, "Request failed with status code 403"),
    Failure(429, "Request failed with status code 429"),
    Failure(0, "timeout of 180000ms exceeded") }

\* what the scraping provider answers to the connection test of
\* analyze/route.ts: a page, or a rejection with or without an HTTP response
TestOutcomes ==
  { Html("Example Domain"),
    Failure(401, "Request failed with status code 401"),
    Failure(403, "Request failed with status code 403"),
    Failure(429, "Request failed with status code 429"),
    Failure(500, "Request failed with status code 500"),
    Failure(0, "timeout of 30000ms exceeded") }

\* what the LLM answers to a prompt
LlmOutcomes ==
  { Reply("{\"found\":true,\"activeAds\":5,\"newAds\":2,\"error\":null}"),
    Reply("'''json\n{\"found\": true, \"activeAds\": 0, \"newAds\": 0, \"error\": null}\n'''"),
    Reply("{\"found\":true,\"activeAds\":3,\"newAds\":9}"),
    Reply("Verdict: {\"found\":false,\"activeAds\":5,\"newAds\":1,\"error\":\"numbers look unrealistic\"}"),
    Reply("I cannot verify this."),
    Reply("  "),
    Reply("{\"companyName\":\"Acme\",\"websiteUrl\":\"https://acme.com\",\"verified\":true,\"platforms\":{\"facebook\":{\"found\":true,\"activeAds\":4,\"newAds\":1}}}"),
    NullReply,
    LlmFailure("429 Rate limit reached") }

\* the values Math.random() * range is floored to: the least and the greatest
RandomDraws(range) == {0, range - 1}

Init ==
  /\ request \in [route : Routes, openaiApiKey : BOOLEAN, providerApiKey : BOOLEAN,
                  companies : CompanyLists, dateRange : BatchDateRanges]
  /\ request.route \in {"multi", "puppeteer"} => request.providerApiKey
  /\ request.route = "puppeteer" =>
        \A j \in 1..Len(request.companies) : request.companies[j].named
  /\ pc = "received"
  /\ i = 1
  /\ endpoint = 1
  /\ scrapingResult = NotFound("")
  /\ results = <<>>
  /\ response = NoResponse
  /\ thrown = {}
  /\ log = <<>>
  /\ twin = <<>>
  /\ scanIn = [company |-> Acme, doc |-> "", dateRange |-> 7]
  /\ scanPc = "idle"
  /\ scanOut = [route |-> "none"]
  /\ client = NoPage

currentCompany == request.companies[i]

\* results.push(value) in this run and results.push(other) in the second run
Push2(value, other) ==
  /\ results' = Pushed(results, i, value)
  /\ twin' = Pushed(twin, i, other)

\* results.push(value) in both runs
Push(value) == Push2(value, value)

\* one more entry of the log: a request to an endpoint ("probe"), to the
\* scraping provider ("fetch") or to the LLM ("llm"), a results.push ("push")
\* or a setTimeout wait of ms milliseconds ("delay"), for company k; a
\* rejected request to the provider is logged as "reject" with the HTTP status
\* of error.response in ms (0: no response)
Logged(entries, op, k, ms) == Append(entries, [op |-> op, k |-> k, ms |-> ms])

\* the log after a reply of the LLM was parsed for company k: a parse that was
\* attempted and gave no value is logged as "unparsed"
Unparsed(entries, k, attempted, parsed) ==
  IF attempted /\ parsed = None THEN Logged(entries, "unparsed", k, 0) ELSE entries

\* the log after test request k of a connection test was answered: a failed
\* test request is logged as "refused" with the HTTP status of its response
Probed(entries, k, testResponse) ==
  IF testResponse.kind = "error"
  THEN Logged(Logged(entries, "probe", k, 0), "refused", k, testResponse.status)
  ELSE Logged(entries, "probe", k, 0)

\* the routes that fetch the search page of each company
ScrapingRoutes == {"handle", "analyze", "verify", "puppeteer", "bee", "fallback"}

\* the log after the provider has answered resp to the request for company k
Rejected(entries, k, resp) ==
  IF resp.kind = "error" THEN Logged(entries, "reject", k, resp.status) ELSE entries

\* the wait each route puts between two companies, in milliseconds
delayMs(route) ==
  CASE route = "handle" -> 12000
    [] route = "analyze" -> 6000
    [] route = "verify" -> 3000
    [] route = "puppeteer" -> 2000
    [] route = "bee" -> 8000
    [] route = "fallback" -> 4000
    [] OTHER -> 1000

\* a handler without credential checks
Receive_unchecked ==
  /\ pc = "received"
  /\ pc' = IF request.route = "aiOnly" THEN "probe"
           ELSE IF request.route = "analyze" THEN "test" ELSE "loop"
  /\ UNCHANGED <<request, i, endpoint, scrapingResult, results, twin, response, thrown, log,
                 scanVars, client>>

\* the credential checks at the head of each handler
Receive ==
  /\ pc = "received"
  /\ IF ~request.openaiApiKey
     THEN /\ response' = ErrorResponse(400,
                           IF request.route = "puppeteer" THEN "API key is required"
                           ELSE "OpenAI API key is required")
          /\ pc' = "done"
     ELSE IF ~request.providerApiKey
     THEN /\ response' = ErrorResponse(400,
                           IF request.route = "handle"
                           THEN "ScrapingBee API key is required"
                           ELSE "Browserless API key is required")
          /\ pc' = "done"
     ELSE /\ pc' = IF request.route = "aiOnly" THEN "probe"
                   ELSE IF request.route = "analyze" THEN "test" ELSE "loop"
          /\ UNCHANGED response
  /\ UNCHANGED <<request, i, endpoint, scrapingResult, results, twin, thrown, log, scanVars, client>>

\* the message of the 400 response to a failed connection test; a rejection
\* without an HTTP response has status undefined and no statusText
connectionErrorMessage(testError) ==
  "Browserless API connection failed. "
    \o (IF testError.status = 401
        THEN "Invalid API key. Please verify your Browserless.io API key."
        ELSE IF testError.status = 403
        THEN "Access denied. Your free plan might not support this endpoint. Try upgrading or contact Browserless support."
        ELSE IF testError.status = 429
        THEN "Rate limit exceeded. Please wait and try again."
        ELSE "HTTP " \o (IF testError.status = 0 THEN "undefined"
                         ELSE ToString(testError.status))
                    \o ": Unknown error")

\* a connection test whose failure is only reported on the console
TestConnection_lenient ==
  /\ pc = "test"
  /\ request.route = "analyze"
  /\ \E testResponse \in TestOutcomes :
       /\ pc' = "loop"
       /\ UNCHANGED response
       /\ log' = Probed(log, 0, testResponse)
  /\ UNCHANGED <<request, i, endpoint, scrapingResult, results, twin, thrown, scanVars, client>>

\* analyze/route.ts tests the connection to the provider before the loop; a
\* failed test ends the request with status 400
TestConnection ==
  /\ pc = "test"
  /\ request.route = "analyze"
  /\ \E testResponse \in TestOutcomes :
       /\ IF testResponse.kind = "error"
          THEN /\ response' = ErrorResponse(400, connectionErrorMessage(testResponse))
               /\ pc' = "done"
          ELSE /\ pc' = "loop"
               /\ UNCHANGED response
       /\ log' = Probed(log, 0, testResponse)
  /\ UNCHANGED <<request, i, endpoint, scrapingResult, results, twin, thrown, scanVars, client>>

\* the message of part_004's 400 response to a failed ScrapingBee test
scrapingBeeErrorMessage(testError) ==
  "ScrapingBee API connection failed. "
    \o (IF testError.status = 401
        THEN "Invalid API key. Please check your ScrapingBee API key."
        ELSE IF testError.status = 403
        THEN "Insufficient credits or plan limits. Check your ScrapingBee account."
        ELSE IF testError.status = 429
        THEN "Rate limit exceeded. Please wait and try again."
        ELSE "HTTP " \o (IF testError.status = 0 THEN "undefined"
                         ELSE ToString(testError.status))
                    \o ": Unknown error")

\* part_004 tests the connection to ScrapingBee before the loop
TestScrapingBee ==
  /\ pc = "test"
  /\ request.route = "bee"
  /\ \E testResponse \in TestOutcomes :
       /\ IF testResponse.kind = "error"
          THEN /\ response' = ErrorResponse(400, scrapingBeeErrorMessage(testResponse))
               /\ pc' = "done"
          ELSE /\ pc' = "loop"
               /\ UNCHANGED response
       /\ log' = Probed(log, 0, testResponse)
  /\ UNCHANGED <<request, i, endpoint, scrapingResult, results, twin, thrown, scanVars, client>>

\* part_009 tests the /content endpoint first; when that request fails the
\* inner catch goes on to the /scrape endpoint
TestContent ==
  /\ pc = "test"
  /\ request.route = "fallback"
  /\ \E testResponse \in TestOutcomes :
       /\ pc' = IF testResponse.kind = "error" THEN "retest" ELSE "loop"
       /\ log' = Probed(log, 1, testResponse)
  /\ UNCHANGED <<request, i, endpoint, scrapingResult, results, twin, response, thrown,
                 scanVars, client>>

\* the message of part_009's 400 response to a failed connection test; a
\* rejection without an HTTP response has neither status nor statusText
fallbackErrorMessage(testError) ==
  "Browserless API connection failed. "
    \o (IF testError.status = 401
        THEN "Invalid API key. Please check your Browserless.io API key."
        ELSE IF testError.status = 403
        THEN "API key valid but access denied. Check your plan limits."
        ELSE IF testError.status = 429
        THEN "Rate limit exceeded. Please try again later."
        ELSE IF testError.status = 0
        THEN "HTTP undefined: undefined"
        ELSE "HTTP " \o ToString(testError.status) \o ": ")

\* part_009, the /scrape endpoint as fallback: its failure reaches the outer
\* catch, which ends the request with status 400
TestScrape ==
  /\ pc = "retest"
  /\ request.route = "fallback"
  /\ \E testResponse \in TestOutcomes :
       /\ IF testResponse.kind = "error"
          THEN /\ response' = ErrorResponse(400, fallbackErrorMessage(testResponse))
               /\ pc' = "done"
          ELSE /\ pc' = "loop"
               /\ UNCHANGED response
       /\ log' = Probed(log, 2, testResponse)
  /\ UNCHANGED <<request, i, endpoint, scrapingResult, results, twin, thrown, scanVars, client>>

\* what an endpoint of the provider answers to the probe: a page, or the
\* refusal of a plan without access to the endpoint
ProbeOutcomes == {Html("Example Domain"), Failure(403, "Request failed with status code 403")}

\* a probing loop without the break
Probe_exhaustive ==
  /\ pc = "probe"
  /\ \E testResponse \in ProbeOutcomes :
       /\ IF endpoint < Len(endpointsToTry)
          THEN /\ endpoint' = endpoint + 1
               /\ UNCHANGED <<pc, response>>
          ELSE IF testResponse.kind # "error"
          THEN /\ response' = ErrorResponse(400,
                     "Browserless free plan has limited endpoint access. Consider upgrading your Browserless plan or we can switch to AI-only analysis.")
               /\ pc' = "done"
               /\ UNCHANGED endpoint
          ELSE /\ pc' = "loop"
               /\ UNCHANGED <<endpoint, response>>
       /\ log' = Probed(log, endpoint, testResponse)
  /\ UNCHANGED <<request, i, scrapingResult, results, twin, thrown, scanVars, client>>

\* the probing route tries one endpoint; the first that works ends the request
Probe ==
  /\ pc = "probe"
  /\ \E testResponse \in ProbeOutcomes :
       /\ IF testResponse.kind # "error"
          THEN /\ response' = ErrorResponse(400,
                     "Browserless free plan has limited endpoint access. Consider upgrading your Browserless plan or we can switch to AI-only analysis.")
               /\ pc' = "done"
               /\ UNCHANGED endpoint
          ELSE IF endpoint < Len(endpointsToTry)
          THEN /\ endpoint' = endpoint + 1
               /\ UNCHANGED <<pc, response>>
          ELSE /\ pc' = "loop"
               /\ UNCHANGED <<endpoint, response>>
       /\ log' = Probed(log, endpoint, testResponse)
  /\ UNCHANGED <<request, i, scrapingResult, results, twin, thrown, scanVars, client>>

\* a loop that starts the request of the next company together with that of
\* the current one
NextCompany_fanOut ==
  /\ pc = "loop"
  /\ i <= Len(request.companies)
  /\ IF request.route \notin {"multi", "puppeteer"} /\ ~currentCompany.named
     THEN /\ response' = ErrorResponse(500,
                "Internal server error: Cannot read properties of undefined (reading 'trim')")
          /\ pc' = "done"
          /\ UNCHANGED <<i, log>>
     ELSE IF /\ request.route \notin {"multi", "puppeteer"}
             /\ trim(currentCompany.companyName) = ""
     THEN /\ i' = i + 1
          /\ UNCHANGED <<pc, log, response>>
     ELSE /\ pc' = IF request.route \in ScrapingRoutes
                   THEN "fetch" ELSE "llm"
          /\ log' = IF request.route \in ScrapingRoutes
                    THEN IF i < Len(request.companies)
                         THEN Logged(Logged(log, "fetch", i, 0), "fetch", i + 1, 0)
                         ELSE Logged(log, "fetch", i, 0)
                    ELSE Logged(log, "llm", i, 0)
          /\ UNCHANGED <<i, response>>
  /\ UNCHANGED <<request, endpoint, scrapingResult, results, twin, thrown, scanVars, client>>

\* the head of the company loop: a blank name is skipped (not in route.js
\* and not in the Puppeteer route, which have no name test).
\* company.companyName.trim() stands before the per-company try: without a
\* companyName it throws a TypeError that the outer catch answers with 500
NextCompany ==
  /\ pc = "loop"
  /\ i <= Len(request.companies)
  /\ IF request.route \notin {"multi", "puppeteer"} /\ ~currentCompany.named
     THEN /\ response' = ErrorResponse(500,
                "Internal server error: Cannot read properties of undefined (reading 'trim')")
          /\ pc' = "done"
          /\ UNCHANGED <<i, log>>
     ELSE IF /\ request.route \notin {"multi", "puppeteer"}
             /\ trim(currentCompany.companyName) = ""
     THEN /\ i' = i + 1
          /\ UNCHANGED <<pc, log, response>>
     ELSE /\ pc' = IF request.route \in ScrapingRoutes
                   THEN "fetch" ELSE "llm"
          /\ log' = Logged(log, IF request.route \in ScrapingRoutes
                                THEN "fetch" ELSE "llm", i, 0)
          /\ UNCHANGED <<i, response>>
  /\ UNCHANGED <<request, endpoint, scrapingResult, results, twin, thrown, scanVars, client>>

\* the loop is over: the batch response
Respond ==
  /\ pc = "loop"
  /\ i > Len(request.companies)
  /\ response' = [status |-> 200, error |-> "", companies |-> results]
  /\ pc' = "done"
  /\ UNCHANGED <<request, i, endpoint, scrapingResult, results, twin, thrown, log, scanVars, client>>

\* the scrape of the handle route ends in its catch block: the request is
\* rejected, the body is no string or is empty, or the domain RegExp throws
scrapeThrows(c, resp) ==
  \/ resp.kind # "html"
  \/ resp.data = ""
  \/ \E ev \in {evidenceOf(c.companyName, c.websiteUrl, c.facebookUrl, resp.data)} :
        ~ev.hasNoResults /\ countingThrows(ev)

\* the CompanyResult the handle route pushes for a response of the provider:
\* the scrape's result with facebookUrl: company.facebookUrl || ''
handleResult(c, dateRange, resp) ==
  The({ Obj(SubSeq(shown.kids, 1, 2)
              \o <<Member("facebookUrl",
                     Str(IF c.facebookUrl = None THEN "" ELSE c.facebookUrl[1]))>>
              \o SubSeq(shown.kids, 3, 6))
        : shown \in {ResultOfScrape(c,
                        scrapeFacebookAdsWithScrapingBee(c.companyName, c.websiteUrl,
                           c.facebookUrl, dateRange, resp))} })

\* the number of requests to the scraping provider made for company k
fetchCount(k) == Cardinality({p \in DOMAIN log : log[p].op = "fetch" /\ log[p].k = k})

\* a handle route that issues a rejected request once more
FetchHandle_retry ==
  /\ pc = "fetch"
  /\ request.route = "handle"
  /\ \E resp \in FetchOutcomes :
       IF resp.kind = "error" /\ fetchCount(i) < 2
       THEN /\ log' = Logged(log, "fetch", i, 0)
            /\ UNCHANGED <<pc, i, results, twin, thrown>>
       ELSE /\ Push(handleResult(currentCompany, request.dateRange, resp))
            /\ thrown' = IF scrapeThrows(currentCompany, resp)
                         THEN thrown \cup {i} ELSE thrown
            /\ log' = Logged(Rejected(log, i, resp), "push", i, 0)
            /\ IF i < Len(request.companies)
               THEN pc' = "delay" /\ UNCHANGED i
               ELSE pc' = "loop" /\ i' = i + 1
  /\ UNCHANGED <<request, endpoint, scrapingResult, response, scanVars, client>>

\* analyze/route.ts: the scrape returns, its result is pushed, and the
\* handler waits 6 s unless the company is the last
FetchAnalyze ==
  /\ pc = "fetch"
  /\ request.route = "analyze"
  /\ \E resp \in FetchOutcomes :
       /\ Push(ResultOfScrape(currentCompany,
                  scrapeFacebookAdsWithBrowserless_analyze(currentCompany.companyName,
                     currentCompany.websiteUrl, request.dateRange, resp)))
       /\ thrown' = IF resp.kind # "html" \/ resp.data = ""
                    THEN thrown \cup {i} ELSE thrown
       /\ log' = Logged(Rejected(log, i, resp), "push", i, 0)
  /\ IF i < Len(request.companies)
     THEN pc' = "delay" /\ UNCHANGED i
     ELSE pc' = "loop" /\ i' = i + 1
  /\ UNCHANGED <<request, endpoint, scrapingResult, response, scanVars, client>>

\* what the scrapers of part_004 and part_009 return: they catch their own
\* errors and report them in the error field
TestedScrapes ==
  { ScrapeResult(TRUE, Some(5), Some(1), None),
    NotFound("No ads found in Facebook Ads Library"),
    NotFound("ScrapingBee rate limit exceeded") }

\* part_004 and part_009: the scrape returns, its result is pushed, and the
\* handler waits (8 s, 4 s) unless the company is the last
FetchTested ==
  /\ pc = "fetch"
  /\ request.route \in {"bee", "fallback"}
  /\ \E scraped \in TestedScrapes :
       Push(ResultOfScrape(currentCompany, scraped))
  /\ log' = Logged(log, "push", i, 0)
  /\ IF i < Len(request.companies)
     THEN pc' = "delay" /\ UNCHANGED i
     ELSE pc' = "loop" /\ i' = i + 1
  /\ UNCHANGED <<request, endpoint, scrapingResult, response, thrown, scanVars, client>>

\* handle route: the scrape returns, its result is pushed, and the handler
\* waits 12 s unless the company is the last
FetchHandle ==
  /\ pc = "fetch"
  /\ request.route = "handle"
  /\ \E resp \in FetchOutcomes :
       /\ Push(handleResult(currentCompany, request.dateRange, resp))
       /\ thrown' = IF scrapeThrows(currentCompany, resp)
                    THEN thrown \cup {i} ELSE thrown
       /\ log' = Logged(Rejected(log, i, resp), "push", i, 0)
  /\ IF i < Len(request.companies)
     THEN pc' = "delay" /\ UNCHANGED i
     ELSE pc' = "loop" /\ i' = i + 1
  /\ UNCHANGED <<request, endpoint, scrapingResult, response, scanVars, client>>

\* verify route: the scrape returns; with ads found the LLM is asked to
\* verify them, otherwise a not-found result is pushed
FetchVerify ==
  /\ pc = "fetch"
  /\ request.route = "verify"
  /\ \E resp \in FetchOutcomes :
       \E r \in {scrapeFacebookAdsWithBrowserless_verify(currentCompany.companyName,
                    request.dateRange, resp)} :
          /\ thrown' = IF resp.kind # "html" \/ resp.data = ""
                       THEN thrown \cup {i} ELSE thrown
          /\ IF r.found /\ r.activeAds # None /\ r.activeAds # Some(0)
             THEN /\ scrapingResult' = r
                  /\ pc' = "llm"
                  /\ log' = Logged(log, "llm", i, 0)
                  /\ UNCHANGED <<results, twin>>
             ELSE /\ Push(
                       CompanyResult(currentCompany, Null, Null, Bool(FALSE),
                          IF Truthy(JsOfError(r.error)) THEN JsOfError(r.error)
                          ELSE Str("Company not found in ads library")))
                  /\ pc' = "delay"
                  /\ log' = Logged(Rejected(log, i, resp), "push", i, 0)
                  /\ UNCHANGED scrapingResult
  /\ UNCHANGED <<request, i, endpoint, response, scanVars, client>>

\* content?.trim() of a reply: None when the content is null
responseTextOf(out) == IF out.kind = "content" THEN Some(trim(out.text)) ELSE None

\* the object of a reply: None when the content is null or empty, when it has
\* no brace pair and when JSON.parse throws
parsedReply(responseText) ==
  IF responseText = None \/ responseText = Some("") THEN None
  ELSE replyObject(responseText[1])

\* a handler whose parse failure leaves its try block and reaches the
\* per-company catch
scrapedFallback_thrown(c, scraped) ==
  FailedResult(c, "No JSON found in verification response")

\* the result pushed by the inner catch (parseError) and by the branch of an
\* empty reply: the scraped data
scrapedFallback(c, scraped) == ResultOfScrape(c, scraped)

\* verify route: the completion returns or rejects.  A reply with a parsable
\* object is pushed member by member; without one the scraped result is
\* pushed; a rejection is pushed by the catch block, which skips the delay
LlmVerify ==
  /\ pc = "llm"
  /\ request.route = "verify"
  /\ \E out \in LlmOutcomes :
       IF out.kind = "throws"
       THEN /\ Push( FailedResult(currentCompany, out.message))
            /\ thrown' = thrown \cup {i}
            /\ pc' = "loop"
            /\ i' = i + 1
            /\ log' = Logged(log, "push", i, 0)
       ELSE \E verifiedResult \in {parsedReply(responseTextOf(out))} :
               /\ Push(
                    IF verifiedResult = None
                    THEN scrapedFallback(currentCompany, scrapingResult)
                    ELSE CompanyResult(currentCompany,
                           Get(verifiedResult[1], "activeAds"),
                           Get(verifiedResult[1], "newAds"),
                           Get(verifiedResult[1], "found"),
                           OrUndefined(Get(verifiedResult[1], "error"))))
               /\ pc' = "delay"
               /\ log' = Logged(Unparsed(log, i,
                                   responseTextOf(out) \notin {None, Some("")},
                                   verifiedResult),
                                "push", i, 0)
               /\ UNCHANGED <<i, thrown>>
  /\ UNCHANGED <<request, endpoint, scrapingResult, response, scanVars, client>>

\* isLargeCompany of the AI-only fallback
isLargeCompany(c) ==
  \/ Len(c.companyName) > 15
  \/ includes(c.websiteUrl, ".com")
  \/ includes(toLowerCase(c.companyName), "group")

\* the fallback estimate of the AI-only analysis; draw is
\* Math.floor(Math.random() * (isLargeCompany ? 40 : 20))
fallbackEstimate(c, large, draw, dateRange) ==
  LET estimatedActive == draw + (IF large THEN 20 ELSE 8)
      estimatedNew ==
        FloorRatio(estimatedActive,
                   IF dateRange <= 7 THEN 20 ELSE IF dateRange <= 30 THEN 30 ELSE 40, 100)
  IN CompanyResult(c, Num(estimatedActive), Num(estimatedNew), Bool(TRUE),
                   Str("AI analysis with fallback estimates"))

\* AI-only analysis: the completion returns or rejects.  A parsable object is
\* pushed with its counts kept only when its found is truthy; an unparsable
\* reply gives random fallback estimates; an empty reply pushes nothing
LlmAiOnly ==
  /\ pc = "llm"
  /\ request.route = "aiOnly"
  /\ \E out \in LlmOutcomes :
       IF out.kind = "throws"
       THEN /\ Push( FailedResult(currentCompany, "Analysis failed"))
            /\ thrown' = thrown \cup {i}
            /\ pc' = "loop"
            /\ i' = i + 1
            /\ log' = Logged(log, "push", i, 0)
       ELSE \E responseText \in {responseTextOf(out)} :
            \E aiResult \in {parsedReply(responseText)} :
               /\ IF responseText = None \/ responseText = Some("")
                  THEN UNCHANGED <<results, twin>>
                  ELSE IF aiResult # None
                  THEN \E found \in {Get(aiResult[1], "found")} :
                         Push(
                           CompanyResult(currentCompany,
                             IF Truthy(found) THEN Get(aiResult[1], "activeAds") ELSE Null,
                             IF Truthy(found) THEN Get(aiResult[1], "newAds") ELSE Null,
                             found,
                             OrUndefined(Get(aiResult[1], "error"))))
                  ELSE \E large \in {isLargeCompany(currentCompany)} :
                       \E draw, twinDraw \in RandomDraws(IF large THEN 40 ELSE 20) :
                         Push2(fallbackEstimate(currentCompany, large, draw,
                                                request.dateRange),
                               fallbackEstimate(currentCompany, large, twinDraw,
                                                request.dateRange))
               /\ pc' = "delay"
               /\ UNCHANGED <<i, thrown>>
               /\ log' = IF responseText = None \/ responseText = Some("") THEN log
                         ELSE Logged(Unparsed(log, i, TRUE, aiResult), "push", i, 0)
  /\ UNCHANGED <<request, endpoint, scrapingResult, response, scanVars, client>>

\* analyze-ads/route.js: the completion returns or rejects.  The parsed reply
\* is pushed as it is, an unparsable one gives the default structure, and a
\* rejection or a null content gives the default structure with an error
LlmMulti ==
  /\ pc = "llm"
  /\ request.route = "multi"
  /\ \E out \in LlmOutcomes :
       IF out.kind # "content"
       THEN /\ Push(
                  Obj(DefaultMembers(currentCompany)
                        \o <<Member("error", Str("Analysis failed"))>>))
            /\ thrown' = thrown \cup {i}
            /\ log' = Logged(log, "push", i, 0)
       ELSE \E analysisResult \in {JSONParse(trim(out.text))} :
               /\ Push(
                     IF analysisResult = None THEN Obj(DefaultMembers(currentCompany))
                     ELSE analysisResult[1])
               /\ UNCHANGED thrown
               /\ log' = Logged(Unparsed(log, i, TRUE, analysisResult), "push", i, 0)
  /\ pc' = "loop"
  /\ i' = i + 1
  /\ UNCHANGED <<request, endpoint, scrapingResult, response, scanVars, client>>

\* what the headless browser of the Puppeteer route shows: a page with its
\* content, the number of elements each of the four ad selectors matches and
\* the number of divs with ad-like text; a navigation that throws; or a
\* browser that fails to launch
Page(content, elements, divs) ==
  [kind |-> "page", content |-> content, elements |-> elements, divs |-> divs,
   message |-> ""]

NavigationFailure(message) ==
  [kind |-> "navigation", content |-> "", elements |-> <<0, 0, 0, 0>>, divs |-> 0,
   message |-> message]

LaunchFailure(message) ==
  [kind |-> "launch", content |-> "", elements |-> <<0, 0, 0, 0>>, divs |-> 0,
   message |-> message]

PageOutcomes ==
  { Page("Acme Corp Sponsored", <<0, 3, 0, 0>>, 7),
    Page("Acme Corp", <<0, 0, 0, 0>>, 0),
    Page("Acme Corp Ad Ad", <<0, 0, 0, 0>>, 60),
    Page("No results for Acme Corp", <<0, 0, 0, 2>>, 4),
    NavigationFailure("Navigation timeout of 30000 ms exceeded"),
    LaunchFailure("Failed to launch the browser process!") }

\* the ad selectors of the Puppeteer route, in the order tried
adSelectors ==
  <<"[data-testid=\"ad-card\"]", "[data-testid=\"serp-item\"]", ".x1i10hfl",
    "[role=\"article\"]">>

\* the number of elements of the first selector that matches any
RECURSIVE firstSelectorCount(_, _)
firstSelectorCount(elements, s) ==
  IF s > Len(adSelectors) THEN 0
  ELSE IF elements[s] > 0 THEN elements[s]
  ELSE firstSelectorCount(elements, s + 1)

\* scrapeFacebookAdsLibrary once the browser has launched
scrapeFacebookAdsLibrary(dateRange, page) ==
  IF page.kind # "page" THEN NotFound("Scraping failed: " \o page.message)
  ELSE IF \/ includes(page.content, "No results")
          \/ includes(page.content, "no ads")
          \/ includes(page.content, "No ads found")
  THEN NotFound("Company not found in ads library")
  ELSE The({ The({ ScrapeResult(activeAds > 0,
                                IF activeAds > 0 THEN Some(activeAds) ELSE None,
                                IF activeAds > 0
                                THEN Some(FloorRatio(activeAds,
                                            IF dateRange <= 7 THEN 30
                                            ELSE IF dateRange <= 30 THEN 60 ELSE 80, 100))
                                ELSE None,
                                None)
                   : activeAds \in {IF bySelector = 0 THEN Min(page.divs, 50)
                                    ELSE bySelector} })
             : bySelector \in {firstSelectorCount(page.elements, 1)} })

\* Puppeteer route: the scrape returns or the launch of the browser throws;
\* with ads found the LLM is asked to verify them, otherwise the scrape's
\* result is pushed with the scrape's error, which is null at a zero count
FetchPuppeteer ==
  /\ pc = "fetch"
  /\ request.route = "puppeteer"
  /\ \E page \in PageOutcomes :
       IF page.kind = "launch"
       THEN /\ Push(FailedResult(currentCompany, page.message))
            /\ log' = Logged(log, "push", i, 0)
            /\ thrown' = thrown \cup {i}
            /\ pc' = "loop"
            /\ i' = i + 1
            /\ UNCHANGED scrapingResult
       ELSE \E r \in {scrapeFacebookAdsLibrary(request.dateRange, page)} :
               /\ thrown' = IF page.kind = "navigation" THEN thrown \cup {i} ELSE thrown
               /\ UNCHANGED i
               /\ IF r.found
                  THEN /\ scrapingResult' = r
                       /\ pc' = "llm"
                       /\ log' = Logged(log, "llm", i, 0)
                       /\ UNCHANGED <<results, twin>>
                  ELSE /\ Push(CompanyResult(currentCompany, Null, Null, Bool(FALSE),
                                             JsOfError(r.error)))
                       /\ pc' = "delay"
                       /\ log' = Logged(log, "push", i, 0)
                       /\ UNCHANGED scrapingResult
  /\ UNCHANGED <<request, endpoint, response, scanVars, client>>

\* Puppeteer route: the completion returns or rejects.  The reply, fences
\* removed, is parsed as a whole and pushed member by member; an unparsable
\* reply pushes the scraped result; an empty reply pushes nothing
LlmPuppeteer ==
  /\ pc = "llm"
  /\ request.route = "puppeteer"
  /\ \E out \in LlmOutcomes :
       IF out.kind = "throws"
       THEN /\ Push(FailedResult(currentCompany, out.message))
            /\ log' = Logged(log, "push", i, 0)
            /\ thrown' = thrown \cup {i}
            /\ pc' = "loop"
            /\ i' = i + 1
       ELSE \E responseText \in {responseTextOf(out)} :
               /\ IF responseText = None \/ responseText = Some("")
                  THEN UNCHANGED <<results, twin, log>>
                  ELSE \E parsedResult \in
                          {JSONParse(trim(removeAll(responseText[1], CodeFence)))} :
                         /\ Push(IF parsedResult = None
                                 THEN CompanyResult(currentCompany,
                                        JsOfCount(scrapingResult.activeAds),
                                        JsOfCount(scrapingResult.newAds),
                                        Bool(scrapingResult.found),
                                        JsOfError(scrapingResult.error))
                                 ELSE CompanyResult(currentCompany,
                                        Get(parsedResult[1], "activeAds"),
                                        Get(parsedResult[1], "newAds"),
                                        Get(parsedResult[1], "found"),
                                        Get(parsedResult[1], "error")))
                         /\ log' = Logged(Unparsed(log, i, TRUE, parsedResult),
                                          "push", i, 0)
               /\ pc' = "delay"
               /\ UNCHANGED <<i, thrown>>
  /\ UNCHANGED <<request, endpoint, scrapingResult, response, scanVars, client>>

\* the wait between two companies is over
Delay ==
  /\ pc = "delay"
  /\ pc' = "loop"
  /\ i' = i + 1
  /\ log' = Logged(log, "delay", i, delayMs(request.route))
  /\ UNCHANGED <<request, endpoint, scrapingResult, results, twin, response, thrown, scanVars, client>>

Next ==
  \/ Receive
  \/ Probe
  \/ TestConnection
  \/ NextCompany
  \/ Respond
  \/ FetchHandle
  \/ FetchAnalyze
  \/ FetchVerify
  \/ LlmVerify
  \/ LlmAiOnly
  \/ LlmMulti
  \/ FetchPuppeteer
  \/ LlmPuppeteer
  \/ Delay

Spec == Init /\ [][Next]_vars

(***************************************************************************)
(* The handlers that test the connection to the provider before the loop:  *)
(* analyze/route.ts, part_004 (ScrapingBee) and part_009 (/content, then   *)
(* /scrape), from the point where the credential checks have passed        *)
(***************************************************************************)

TestedRoutes == {"analyze", "bee", "fallback"}

TestInit ==
  /\ request \in [route : TestedRoutes, openaiApiKey : {TRUE}, providerApiKey : {TRUE},
                  companies : CompanyLists, dateRange : BatchDateRanges]
  /\ pc = "test"
  /\ i = 1
  /\ endpoint = 1
  /\ scrapingResult = NotFound("")
  /\ results = <<>>
  /\ response = NoResponse
  /\ thrown = {}
  /\ log = <<>>
  /\ twin = <<>>
  /\ scanIn = [company |-> Acme, doc |-> "", dateRange |-> 7]
  /\ scanPc = "idle"
  /\ scanOut = [route |-> "none"]
  /\ client = NoPage

TestNext ==
  \/ TestConnection
  \/ TestScrapingBee
  \/ TestContent
  \/ TestScrape
  \/ NextCompany
  \/ Respond
  \/ FetchAnalyze
  \/ FetchTested
  \/ Delay

TestSpec == TestInit /\ [][TestNext]_vars

(***************************************************************************)
(* The client pages.  A state update made inside an event handler is       *)
(* rendered before the browser dispatches the next event; an update made   *)
(* after an await waits in the queue until React renders.                  *)
(***************************************************************************)

\* the state updates of the pages
SetLoading(flag) == [set |-> "loading", flag |-> flag, data |-> 0, text |-> ""]

SetResults(n) == [set |-> "results", flag |-> FALSE, data |-> n, text |-> ""]

SetError(text) == [set |-> "error", flag |-> FALSE, data |-> 0, text |-> text]

RECURSIVE Applied(_, _)
\* the state of the page once React has applied the updates, in order
Applied(p, updates) ==
  IF updates = <<>> THEN p
  ELSE Applied(CASE Head(updates).set = "loading" -> [p EXCEPT !.loading = Head(updates).flag]
                 [] Head(updates).set = "results" -> [p EXCEPT !.results = Some(Head(updates).data)]
                 [] OTHER -> [p EXCEPT !.error = Head(updates).text],
               Tail(updates))

\* updates that wait for a later render
AfterEvent_deferred(p, updates) == [p EXCEPT !.queue = @ \o updates]

\* the page after an event handler has made the updates: React renders them
\* when the handler returns, before the next event
AfterEvent(p, updates) == Applied(p, updates)

\* companies.filter(c => c.companyName.trim() && c.websiteUrl.trim()) in
\* HomePage, formData.companies.filter(comp => comp.url) in AdsAnalyzer
filledCompanies(p) ==
  SelectSeq(p.companies,
            LAMBDA c : IF p.variant = "home" THEN trim(c.name) # "" /\ trim(c.url) # ""
                       ELSE c.url # "")

\* the message of the validation that rejects the form, "" when it passes
validationError(p) ==
  IF p.variant = "home"
  THEN IF trim(p.apiKey) = "" THEN "Please enter your OpenAI API key"
       ELSE IF filledCompanies(p) = <<>>
       THEN "Please fill at least one company name and website URL"
       ELSE ""
  ELSE IF p.apiKey = "" THEN "Please enter your OpenAI API key"
       ELSE IF filledCompanies(p) = <<>> THEN "Please enter at least one website URL"
       ELSE ""

\* a handleAnalyze call: where it stands ("fetching": await fetch, "reading":
\* await response.json(), "done"), the path it took and whether it has
\* issued its request
Call(phase, path, sent) == [phase |-> phase, path |-> path, sent |-> sent]

\* a call without its finally block
Settled_noFinally(p, n, path, updates) ==
  [p EXCEPT !.calls[n] = Call("done", path, TRUE), !.queue = @ \o updates]

\* call n ends after its await: the updates of its try or catch block, then
\* the finally block's setIsAnalyzing(false) / setLoading(false)
Settled(p, n, path, updates) ==
  [p EXCEPT !.calls[n] = Call("done", path, TRUE),
            !.queue = @ \o updates \o <<SetLoading(FALSE)>>]

\* the catch block: an alert in HomePage, setError(err.message || ...) in
\* AdsAnalyzer
Caught(p, n, path, message) ==
  IF p.variant = "home"
  THEN [Settled(p, n, path, <<>>) EXCEPT
          !.alert = "Analysis failed. Please check your API key and try again."]
  ELSE Settled(p, n, path, <<SetError(message)>>)

ClientInit ==
  /\ client \in {NewPage(variant, apiKey, companies) :
                   variant \in {"home", "ads"}, apiKey \in ApiKeys, companies \in Forms}
  /\ request = [route |-> "none", openaiApiKey |-> FALSE, providerApiKey |-> FALSE,
                companies |-> <<>>, dateRange |-> 7]
  /\ pc = "idle"
  /\ i = 1
  /\ endpoint = 1
  /\ scrapingResult = NotFound("")
  /\ results = <<>>
  /\ response = NoResponse
  /\ thrown = {}
  /\ log = <<>>
  /\ twin = <<>>
  /\ scanIn = [company |-> Acme, doc |-> "", dateRange |-> 7]
  /\ scanPc = "idle"
  /\ scanOut = [route |-> "none"]

\* the user types into the form: setApiKey, handleCompanyChange
Edit ==
  /\ \/ \E apiKey \in ApiKeys : client' = [client EXCEPT !.apiKey = apiKey]
     \/ \E companies \in Forms : client' = [client EXCEPT !.companies = companies]
  /\ UNCHANGED <<batchVars, scanVars>>

\* a click on the Analyze button: nothing when the button is rendered
\* disabled; otherwise handleAnalyze runs up to its first await
Click ==
  /\ Len(client.calls) + client.blocked < MaxClicks
  /\ \E n \in {Len(client.calls) + 1}, rejection \in {validationError(client)} :
       client' =
         IF client.loading
         THEN [client EXCEPT !.blocked = @ + 1]
         ELSE IF rejection # ""
         THEN IF client.variant = "home"
              THEN [client EXCEPT !.alert = rejection,
                                  !.calls = Append(@, Call("done", "rejected", FALSE))]
              ELSE AfterEvent([client EXCEPT
                                 !.calls = Append(@, Call("done", "rejected", FALSE))],
                              <<SetError(rejection)>>)
         ELSE AfterEvent([client EXCEPT !.calls = Append(@, Call("fetching", "", TRUE))],
                         IF client.variant = "home" THEN <<SetLoading(TRUE)>>
                         ELSE <<SetLoading(TRUE), SetError("")>>)
  /\ UNCHANGED <<batchVars, scanVars>>

\* the fetch of call n settles: a response with an ok status, a response
\* with an error status, or a rejection
Arrive ==
  /\ \E n \in DOMAIN client.calls, outcome \in {"ok", "httpError", "networkError"} :
       /\ client.calls[n].phase = "fetching"
       /\ client' =
            CASE outcome = "ok" -> [client EXCEPT !.calls[n].phase = "reading"]
              [] outcome = "httpError" -> Caught(client, n, outcome, "Failed to analyze ads")
              [] OTHER -> Caught(client, n, outcome, "Failed to fetch")
  /\ UNCHANGED <<batchVars, scanVars>>

\* response.json() of call n settles: the data, or a body that is no JSON
ReadBody ==
  /\ \E n \in DOMAIN client.calls, parsed \in BOOLEAN :
       /\ client.calls[n].phase = "reading"
       /\ client' =
            IF parsed THEN Settled(client, n, "success", <<SetResults(n)>>)
            ELSE Caught(client, n, "badBody", "Unexpected token < in JSON at position 0")
  /\ UNCHANGED <<batchVars, scanVars>>

\* React renders the queued updates
Render ==
  /\ client.queue # <<>>
  /\ client' = Applied([client EXCEPT !.queue = <<>>], client.queue)
  /\ UNCHANGED <<batchVars, scanVars>>

ClientNext ==
  \/ Edit
  \/ Click
  \/ Arrive
  \/ ReadBody
  \/ Render

ClientSpec == ClientInit /\ [][ClientNext]_vars

(***************************************************************************)
(* The scan of one document by each route's scrape function                *)
(***************************************************************************)

\* what the handle-verified route logs while it scans, and what it returns
scanReport(c, dateRange, htmlContent) ==
  The({ [route   |-> "handle",
         ev      |-> ev,
         branch  |-> countingBranch(ev.socialHandleVerified, ev.matchedHandle,
                                    ev.domainAppears),
         message |-> IF result.found
                     THEN verificationMessage(ev.socialHandleVerified, ev.matchedHandle,
                            ev.domainAppears, ev.companyNameAppears, ev.websiteDomain)
                     ELSE "",
         result  |-> result]
        : ev \in {evidenceOf(c.companyName, c.websiteUrl, c.facebookUrl, htmlContent)},
          result \in {scrapeFacebookAdsWithScrapingBee(c.companyName, c.websiteUrl,
                          c.facebookUrl, dateRange, Html(htmlContent))} })

\* the inputs of a scan: every company with every document and date range,
\* and the company with the mobile URL with the documents of one piece
ScanInputs ==
  [company : ScanCompanies, doc : Docs, dateRange : DateRanges]
    \cup [company : {XasMobile}, doc : DocsOfLen(0) \cup DocsOfLen(1), dateRange : {7}]

ScanInit ==
  /\ scanIn \in ScanInputs
  /\ scanPc = "input"
  /\ scanOut = [route |-> "none"]
  /\ request = [route |-> "none", openaiApiKey |-> FALSE, providerApiKey |-> FALSE,
                companies |-> <<>>, dateRange |-> 7]
  /\ pc = "idle"
  /\ i = 1
  /\ endpoint = 1
  /\ scrapingResult = NotFound("")
  /\ results = <<>>
  /\ response = NoResponse
  /\ thrown = {}
  /\ log = <<>>
  /\ twin = <<>>
  /\ client = NoPage

\* the handle-verified ScrapingBee route scans the document
ScanHandle ==
  /\ scanPc = "input"
  /\ scanOut' = scanReport(scanIn.company, scanIn.dateRange, scanIn.doc)
  /\ scanPc' = "done"
  /\ UNCHANGED <<scanIn, batchVars, client>>

\* the Browserless route of analyze/route.ts scans the document
ScanAnalyze ==
  /\ scanPc = "input"
  /\ scanOut' = [route  |-> "analyze",
                 result |-> scrapeFacebookAdsWithBrowserless_analyze(
                              scanIn.company.companyName, scanIn.company.websiteUrl,
                              scanIn.dateRange, Html(scanIn.doc))]
  /\ scanPc' = "done"
  /\ UNCHANGED <<scanIn, batchVars, client>>

\* the LLM-verified Browserless route scans the document
ScanVerify ==
  /\ scanPc = "input"
  /\ scanOut' = [route  |-> "verify",
                 result |-> scrapeFacebookAdsWithBrowserless_verify(
                              scanIn.company.companyName, scanIn.dateRange,
                              Html(scanIn.doc))]
  /\ scanPc' = "done"
  /\ UNCHANGED <<scanIn, batchVars, client>>

ScanNext == ScanHandle \/ ScanAnalyze \/ ScanVerify

(***************************************************************************)
(* The ad counters, method by method: scrapeFacebookAdsWithBrowserless of  *)
(* the multi-method route (part_005) and of analyze/route.ts               *)
(***************************************************************************)

\* Method 1 of part_005: the Ad and Sponsored labels and the ad attributes
adCountPatterns ==
  << AdLabel, Tagged("sponsored"), DataTestAd,
     Run("aria-label=\"", <<"ad">>, "\"", TRUE, TRUE) >>

\* Method 2 of part_005: the containers of a result
containerPatterns ==
  << Run("<div", <<"role=\"article\"">>, ">", TRUE, TRUE), SerpItemDiv,
     ClassDiv("x1i10hfl") >>

\* Method 3 of part_005: the texts of an ad
adKeywords == <<"sponsored", "promote", "advertisement", "ad by">>

RECURSIVE raisedBy(_, _, _)
\* for (const pattern of patterns) adCount = Math.max(adCount, matches.length)
raisedBy(adCount, htmlContent, patterns) ==
  IF patterns = <<>> THEN adCount
  ELSE raisedBy(Max(adCount, matchCount(htmlContent, Head(patterns))), htmlContent,
                Tail(patterns))

RECURSIVE keywordCountOf(_, _)
\* keywordCount: the matches of every keyword, added up
keywordCountOf(htmlContent, keywords) ==
  IF keywords = <<>> THEN 0
  ELSE matchCount(htmlContent, Lit(Head(keywords), TRUE))
         + keywordCountOf(htmlContent, Tail(keywords))

\* a page of 51 Ad labels followed by 52 occurrences of "ad by"
LabelWall == Repeated(">Ad< ", 51) \o Repeated("ad by ", 52)

CountDocs == Docs \cup {LabelWall}

CountInit ==
  /\ scanIn \in [company : {Acme}, doc : CountDocs, dateRange : {7}]
  /\ scanPc = "input"
  /\ scanOut = [route |-> "none"]
  /\ request = [route |-> "none", openaiApiKey |-> FALSE, providerApiKey |-> FALSE,
                companies |-> <<>>, dateRange |-> 7]
  /\ pc = "idle"
  /\ i = 1
  /\ endpoint = 1
  /\ scrapingResult = NotFound("")
  /\ results = <<>>
  /\ response = NoResponse
  /\ thrown = {}
  /\ log = <<>>
  /\ twin = <<>>
  /\ client = NoPage

\* part_005, Method 1: let adCount = 0, raised by each label pattern
CountLabels ==
  /\ scanPc = "input"
  /\ scanOut' = [route |-> "counter",
                 adCount |-> raisedBy(0, scanIn.doc, adCountPatterns)]
  /\ scanPc' = "labels"
  /\ UNCHANGED <<scanIn, batchVars, client>>

\* part_005, Method 2: adCount raised by each container pattern
CountContainers ==
  /\ scanPc = "labels"
  /\ scanOut' = [scanOut EXCEPT
                   !.adCount = raisedBy(scanOut.adCount, scanIn.doc, containerPatterns)]
  /\ scanPc' = "containers"
  /\ UNCHANGED <<scanIn, batchVars, client>>

\* part_005, Method 3: a keyword count above adCount replaces it, capped at 50
CountKeywords ==
  /\ scanPc = "containers"
  /\ \E keywordCount \in {keywordCountOf(scanIn.doc, adKeywords)} :
       scanOut' = [scanOut EXCEPT
                     !.adCount = IF keywordCount > scanOut.adCount
                                 THEN Min(keywordCount, 50) ELSE scanOut.adCount]
  /\ scanPc' = "counted"
  /\ UNCHANGED <<scanIn, batchVars, client>>

\* analyze/route.ts: the highest of the sponsored, label and attribute counts
CountHighest ==
  /\ scanPc = "input"
  /\ scanOut' = [route |-> "highest",
                 adCount |-> raisedBy(0, scanIn.doc,
                               <<Lit("sponsored", TRUE), AdLabel, DataTestAd>>)]
  /\ scanPc' = "highest"
  /\ UNCHANGED <<scanIn, batchVars, client>>

\* analyze/route.ts: below three, the count of article elements, capped at 20
CountArticles ==
  /\ scanPc = "highest"
  /\ scanOut' = [scanOut EXCEPT
                   !.adCount = IF scanOut.adCount < 3
                               THEN Max(scanOut.adCount,
                                        Min(matchCount(scanIn.doc, ArticleTag), 20))
                               ELSE scanOut.adCount]
  /\ scanPc' = "counted"
  /\ UNCHANGED <<scanIn, batchVars, client>>

CountNext ==
  \/ CountLabels
  \/ CountContainers
  \/ CountKeywords
  \/ CountHighest
  \/ CountArticles

CountSpec == CountInit /\ [][CountNext]_vars

ScanSpec == ScanInit /\ [][ScanNext]_vars


(***************************************************************************)
(* Properties of the scan                                                  *)
(***************************************************************************)

Scanned(route) == scanPc = "done" /\ scanOut.route = route

\* n = ceil(a * pct / 100), stated without the model's rounding operator
IsCeilOf(n, a, pct) == n * 100 >= a * pct /\ (n - 1) * 100 < a * pct

\* n = floor(a * pct / 100)
IsFloorOf(n, a, pct) == n * 100 <= a * pct /\ (n + 1) * 100 > a * pct

\* the ratio of the claim, in hundredths: 0.15 for d <= 7, 0.25 for d <= 30, else 0.4
ClaimedRatio(d) == IF d <= 7 THEN 15 ELSE IF d <= 30 THEN 25 ELSE 40

ClaimedTier(handleMatched, domainAppears, nameAppears) ==
  IF handleMatched THEN "HANDLE"
  ELSE IF domainAppears THEN "DOMAIN"
  ELSE IF nameAppears THEN "NAME"
  ELSE "NONE"

ScanTier ==
  ClaimedTier(scanOut.ev.socialHandleVerified, scanOut.ev.domainAppears,
              scanOut.ev.companyNameAppears)

\* C4: in the handle-verified route the counting branch and the verification
\* message follow the tier HANDLE > DOMAIN > NAME > NONE of the evidence:
\* handle counting for HANDLE, domain counting for DOMAIN, general counting for
\* NAME and NONE, and the handle / domain / name-only / low-confidence message
C4_BranchAndMessageFollowTier ==
  (Scanned("handle") /\ ~scanOut.ev.hasNoResults) =>
     /\ scanOut.branch = (CASE ScanTier = "HANDLE" -> "handle"
                            [] ScanTier = "DOMAIN" -> "domain"
                            [] OTHER -> "general")
     /\ scanOut.result.found =>
          CASE ScanTier = "HANDLE" ->
                 /\ StartsAt(scanOut.message, "OK Verified with social handle", 1)
                 /\ scanOut.result.error = None
            [] ScanTier = "DOMAIN" ->
                 /\ StartsAt(scanOut.message, "OK Verified with website domain", 1)
                 /\ scanOut.result.error = None
            [] ScanTier = "NAME" ->
                 /\ StartsAt(scanOut.message, "WARN Verified by company name only", 1)
                 /\ scanOut.result.error = Some(scanOut.message)
            [] OTHER ->
                 /\ StartsAt(scanOut.message, "WARN Low verification confidence", 1)
                 /\ scanOut.result.error = Some(scanOut.message)

\* C4 witness: domain and name both appear, no handle matched, ads were found
C4_Witness ==
  /\ Scanned("handle")
  /\ scanOut.result.found
  /\ ~scanOut.ev.socialHandleVerified
  /\ scanOut.ev.domainAppears
  /\ scanOut.ev.companyNameAppears
  /\ scanOut.branch = "domain"

\* the document holds one of the no-results phrases configured for the route
HasPhrase(route, doc) ==
  \E k \in 1..Len(IF route = "handle" THEN noResultsIndicators
                  ELSE noResultsIndicators_analyze) :
     includes(toLowerCase(doc),
              (IF route = "handle" THEN noResultsIndicators
               ELSE noResultsIndicators_analyze)[k])

\* C5: a document with a configured no-results phrase gives found=false,
\* activeAds=null, newAds=null and the "No ads found" error, whatever the
\* markers, the evidence and the date range (handle-verified route and
\* analyze/route.ts)
C5_NoResultsWins ==
  \A route \in {"handle", "analyze"} :
     (Scanned(route) /\ HasPhrase(route, scanIn.doc)) =>
        scanOut.result = [found |-> FALSE, activeAds |-> None, newAds |-> None,
                          error |-> Some("No ads found in Facebook Ads Library")]

\* C5 witness: the phrase stands next to ten sponsored markers
C5_Witness ==
  /\ Scanned("handle")
  /\ HasPhrase("handle", scanIn.doc)
  /\ matchCount(scanIn.doc, Lit("sponsored", TRUE)) >= 10
  /\ ~scanOut.result.found

\* a document was received and its final ad count is zero
ZeroCount ==
  /\ scanIn.doc # ""
  /\ IF scanOut.route = "handle"
     THEN ~countingThrows(scanOut.ev) /\ adCountOf(scanOut.ev, scanIn.doc) = 0
     ELSE adCount_analyze(scanIn.doc) = 0

FoundButNoAds(companyName) == "Found \"" \o companyName \o "\" but no active ads detected"

NotInLibrary(companyName) ==
  "Company \"" \o companyName \o "\" not found in Facebook Ads Library"

\* the company name or the website domain occurs in the lower-cased document
NameOrDomainEvidence ==
  LET ev == evidenceOf(scanIn.company.companyName, scanIn.company.websiteUrl,
                       None, scanIn.doc)
  IN ev.companyNameAppears \/ ev.domainAppears

\* C6: with a final ad count of zero and no no-results phrase the result is
\* found=false with the "Found ... but no active ads detected" message when the
\* name or the domain occurs in the document and with the different "Company
\* ... not found in Facebook Ads Library" message otherwise (handle-verified
\* route and analyze/route.ts)
C6_ZeroCountMessages ==
  \A route \in {"handle", "analyze"} :
     (Scanned(route) /\ ~HasPhrase(route, scanIn.doc) /\ ZeroCount) =>
        /\ scanOut.result.found = FALSE
        /\ scanOut.result.error =
             Some(IF NameOrDomainEvidence
                  THEN FoundButNoAds(scanIn.company.companyName)
                  ELSE NotInLibrary(scanIn.company.companyName))
        /\ FoundButNoAds(scanIn.company.companyName)
             # NotInLibrary(scanIn.company.companyName)

\* the number of occurrences of a text in the document, letter case ignored
Occurrences(text) == matchCount(scanIn.doc, Lit(text, TRUE))

\* the scenario of C7: Acme Corp, dateRange 7, ten "sponsored", one "acmecorp"
AcmeScenario ==
  /\ Scanned("handle")
  /\ scanIn.company = Acme
  /\ scanIn.dateRange = 7
  /\ Occurrences("sponsored") = 10
  /\ Occurrences("acmecorp") = 1
  /\ ~HasPhrase("handle", scanIn.doc)

NoHostPattern(facebookUrl) ==
  \/ facebookUrl = None
  \/ \A k \in 1..Len(HostPatterns) : hostCapture(facebookUrl[1], HostPatterns[k]) = None

\* C8: for a social URL that is absent or matches no host pattern the handle
\* list is empty, no handle is matched, the counting branch is the domain or
\* the general one, and the result is the one the same company gets without a
\* social URL
C8_NoHandlesStillResult ==
  (Scanned("handle") /\ NoHostPattern(scanIn.company.facebookUrl)) =>
     /\ scanOut.ev.socialHandles = <<>>
     /\ ~scanOut.ev.socialHandleVerified
     /\ scanOut.branch \in {"domain", "general"}
     /\ scanOut.result.found \in BOOLEAN
     /\ scanOut.result =
          scrapeFacebookAdsWithScrapingBee(scanIn.company.companyName,
             scanIn.company.websiteUrl, None, scanIn.dateRange, Html(scanIn.doc))

\* C8 witness: a twitter URL, a document that names "acmecorp", ads found by
\* the domain branch
C8_Witness ==
  /\ Scanned("handle")
  /\ scanIn.company = AcmeBadSocial
  /\ Occurrences("acmecorp") > 0
  /\ scanOut.branch = "domain"
  /\ scanOut.result.found



(***************************************************************************)
(* Properties of the batch handlers                                        *)
(***************************************************************************)

SinglePlatform == request.route \in {"handle", "verify", "aiOnly", "puppeteer"}

Answered == pc = "done" /\ response.status = 200

\* a JavaScript value that is a number greater than zero
PositiveNumber(v) == v.t = "number" /\ v.n > 0

\* C1: in every CompanyResult of a batch response of the single-platform
\* routes, found is true if and only if activeAds is a number greater than zero
C1_FoundIffActiveAds ==
  SinglePlatform /\ Answered =>
    \A k \in 1..Len(response.companies) :
      (Get(response.companies[k].value, "found") = Bool(TRUE))
        <=> PositiveNumber(Get(response.companies[k].value, "activeAds"))

\* C2: in every CompanyResult of a batch response whose newAds and activeAds
\* are both numbers, newAds is at most activeAds
C2_NewAdsAtMostActiveAds ==
  SinglePlatform /\ Answered =>
    \A k \in 1..Len(response.companies) :
      \E r \in {response.companies[k].value} :
        Get(r, "activeAds").t = "number" /\ Get(r, "newAds").t = "number"
          => Get(r, "newAds").n <= Get(r, "activeAds").n

\* C9: the results are in the order of the companies they were made for, each
\* carries the name of its company (single-platform routes), and the response
\* lists exactly the results, in that order
C9_OutputKeepsInputOrder ==
  /\ \A a, b \in 1..Len(results) : a < b => results[a].src < results[b].src
  /\ \A k \in 1..Len(results) :
       /\ results[k].src \in 1..Len(request.companies)
       /\ SinglePlatform =>
            Get(results[k].value, "companyName")
              = Str(request.companies[results[k].src].companyName)
  /\ Answered => response.companies = results

\* a response of two results, the first of a failed and the second of a
\* successful company
C9_Witness ==
  /\ SinglePlatform /\ Answered
  /\ Len(response.companies) = 2
  /\ Get(response.companies[1].value, "found") = Bool(FALSE)
  /\ Truthy(Get(response.companies[1].value, "error"))
  /\ Get(response.companies[2].value, "found") = Bool(TRUE)

\* a result that reports a failure: found is false (on every platform of a
\* multi-platform result) and error is a non-empty string
ReportsFailure(v) ==
  /\ Get(v, "error").t = "string"
  /\ Get(v, "error").s # ""
  /\ IF request.route = "multi"
     THEN \A p \in 1..Len(PlatformNames) :
            Get(Get(Get(v, "platforms"), PlatformNames[p]), "found") = Bool(FALSE)
     ELSE Get(v, "found") = Bool(FALSE)

\* company j is one the loop analyses: its name is not blank (route.js
\* analyses every company)
Analysed(j) ==
  request.route = "multi" \/ trim(request.companies[j].companyName) # ""

\* every company record of the request has a companyName
WellFormed == \A j \in 1..Len(request.companies) : request.companies[j].named

ResultsFor(j) == {r \in 1..Len(response.companies) : response.companies[r].src = j}

\* C11: when a single-platform route has answered, the response holds exactly
\* one result for each company whose name is not blank and none for a company
\* whose name is empty or whitespace
C11_OneResultPerNamedCompany ==
  SinglePlatform /\ Answered =>
    \A j \in 1..Len(request.companies) :
      Cardinality(ResultsFor(j))
        = IF trim(request.companies[j].companyName) # "" THEN 1 ELSE 0

\* the request carries every credential its route requires
HasCredentials == request.openaiApiKey /\ request.providerApiKey

\* C12: a request that lacks a required credential causes no probe, no fetch,
\* no LLM call, no wait and no result, and once handled it is answered with a
\* status 400 that names the missing key
C12_NoWorkWithoutCredentials ==
  (request.route \in Routes /\ ~HasCredentials) =>
    /\ log = <<>>
    /\ results = <<>>
    /\ pc \in {"received", "done"}
    /\ pc = "done" =>
         /\ response.status = 400
         /\ response.companies = <<>>
         /\ response.error = IF ~request.openaiApiKey /\ request.route = "puppeteer"
                             THEN "API key is required"
                             ELSE IF ~request.openaiApiKey
                             THEN "OpenAI API key is required"
                             ELSE IF request.route = "handle"
                             THEN "ScrapingBee API key is required"
                             ELSE "Browserless API key is required"

\* a request of two companies without the scraping-provider key was refused
C12_Witness ==
  /\ request.route = "handle"
  /\ request.openaiApiKey /\ ~request.providerApiKey
  /\ Len(request.companies) = 2
  /\ pc = "done"
  /\ response.status = 400

\* the record of a platform in a multi-platform result
PlatformOf(v, p) == Get(Get(v, "platforms"), PlatformNames[p])

\* C13: when analyze-ads/route.js has answered, the response holds one entry
\* per submitted company, in submission order, each with a record for each of
\* the four platforms; the entry of a company whose completion threw has every
\* platform at found=false, activeAds=0, newAds=0
C13_FourPlatformsPerCompany ==
  request.route = "multi" /\ Answered =>
    /\ Len(response.companies) = Len(request.companies)
    /\ \A k \in 1..Len(response.companies) :
         /\ response.companies[k].src = k
         /\ \A p \in 1..Len(PlatformNames) :
              /\ PlatformOf(response.companies[k].value, p).t = "object"
              /\ k \in thrown =>
                   PlatformOf(response.companies[k].value, p)
                     = Obj(<< Member("found", Bool(FALSE)),
                              Member("activeAds", Num(0)),
                              Member("newAds", Num(0)) >>)

\* C14: a second run of the same request, given the same responses by the
\* scraping provider and the LLM, has the same results as this run
C14_SameInputsSameResults == twin = results

\* C15: no request with credentials is answered with a whole-batch status
\* 500, and the batch response holds a result for every record that has no
\* companyName
C15_MalformedRecordStaysLocal ==
  (request.route \in Routes /\ pc = "done") =>
    /\ response.status # 500
    /\ response.status = 200 =>
         \A j \in 1..Len(request.companies) :
           ~request.companies[j].named => ResultsFor(j) # {}

\* C16: every result of a single-platform route whose found is false has an
\* error that is a non-empty string
C16_NotFoundHasError ==
  SinglePlatform =>
    \A k \in 1..Len(results) :
      Get(results[k].value, "found") = Bool(FALSE) =>
        /\ Get(results[k].value, "error").t = "string"
        /\ Get(results[k].value, "error").s # ""

\* the route asks the scraping provider for a search document
Fetching == request.route \in ScrapingRoutes

\* the request to the provider made for company k was rejected
FetchFailed(k) ==
  /\ k \in thrown
  /\ \E r \in 1..Len(results) :
       /\ results[r].src = k
       /\ Truthy(Get(results[r].value, "error"))

\* C17: no company has more than one request to the scraping provider in the
\* log, a request is made only for the company of the current iteration, and
\* on the handle route a company whose scrape threw has exactly one result
C17_FetchAtMostOnce ==
  Fetching =>
    /\ \A k \in 1..Len(request.companies) : fetchCount(k) <= 1
    /\ \A p \in DOMAIN log : log[p].op = "fetch" => log[p].k <= i
    /\ request.route = "handle" =>
         \A k \in thrown :
           Cardinality({r \in 1..Len(results) : results[r].src = k}) = 1

\* the handle route has answered two companies: the request for the first was
\* rejected and reported, and each company has one request in the log
C17_Witness ==
  /\ request.route = "handle" /\ Answered
  /\ Len(request.companies) = 2
  /\ FetchFailed(1)
  /\ Get(results[1].value, "error") = Str("ScrapingBee rate limit exceeded")
  /\ fetchCount(1) = 1 /\ fetchCount(2) = 1
  /\ Len(results) = 2

\* the result appends of the run, in the order they were made
pushes == SelectSeq(log, LAMBDA e : e.op = "push")

\* C18: on the routes of the handle and verify handlers, two requests to the
\* provider are made for increasing companies and the result of the earlier
\* company is appended between them; the results list holds exactly the
\* appends of the loop, in the order the loop made them
C18_OneCompanyAtATime ==
  request.route \in {"handle", "analyze", "verify"} =>
    /\ \A p, q \in DOMAIN log :
         (p < q /\ log[p].op = "fetch" /\ log[q].op = "fetch") =>
            /\ log[p].k < log[q].k
            /\ \E r \in (p + 1)..(q - 1) : log[r].op = "push" /\ log[r].k = log[p].k
    /\ Len(pushes) = Len(results)
    /\ \A n \in 1..Len(results) : pushes[n].k = results[n].src

\* the handle route has fetched and answered two companies, one after the other
C18_Witness ==
  /\ request.route = "handle" /\ Answered
  /\ Len(request.companies) = 2
  /\ Len(results) = 2
  /\ \E p, r, q \in DOMAIN log :
       /\ p < r /\ r < q
       /\ log[p] = [op |-> "fetch", k |-> 1, ms |-> 0]
       /\ log[r] = [op |-> "push", k |-> 1, ms |-> 0]
       /\ log[q] = [op |-> "fetch", k |-> 2, ms |-> 0]

\* C19: every request to the provider but the first of a run is immediately
\* preceded by the wait of its route, of the same length whatever the outcome
\* of the company before
C19_FixedDelayBetweenCompanies ==
  Fetching =>
    \A q \in DOMAIN log :
      (q > 1 /\ log[q].op = "fetch") =>
         /\ log[q - 1].op = "delay"
         /\ log[q - 1].ms = delayMs(request.route)

\* the error string the claim gives a rejection of the given HTTP status
ClassifiedAs(status, message) ==
  CASE status = 401 -> /\ includes(toLowerCase(message), "invalid")
                       /\ includes(toLowerCase(message), "api key")
    [] status = 429 -> includes(toLowerCase(message), "rate limit exceeded")
    [] status = 403 -> includes(toLowerCase(message), "insufficient credits")
    [] OTHER -> StartsAt(message, "Scraping failed: ", 1)

\* C20: on the routes of part_003 and analyze/route.ts a rejected request to
\* the provider gives its company one result with found false, activeAds and
\* newAds null and the error string of the status' class, and a well-formed
\* request is still answered with status 200
C20_FetchFailureClassified ==
  request.route \in {"handle", "analyze"} =>
    \A p \in DOMAIN log :
      log[p].op = "reject" =>
        /\ \E r \in 1..Len(results) :
             /\ results[r].src = log[p].k
             /\ Get(results[r].value, "found") = Bool(FALSE)
             /\ Get(results[r].value, "activeAds") = Null
             /\ Get(results[r].value, "newAds") = Null
             /\ Get(results[r].value, "error").t = "string"
             /\ ClassifiedAs(log[p].ms, Get(results[r].value, "error").s)
        /\ (WellFormed /\ pc = "done") => response.status = 200

\* the step logs a parse of an LLM reply that gave no value
ParseFails == \E p \in (Len(log) + 1)..Len(log') : log'[p].op = "unparsed"

\* the results a handler may push for a reply that cannot be parsed: the
\* scraped data, the default structure or a heuristic estimate
Fallbacks ==
  CASE request.route = "verify" -> {ResultOfScrape(currentCompany, scrapingResult)}
    [] request.route = "multi" -> {Obj(DefaultMembers(currentCompany))}
    [] request.route = "aiOnly" ->
         {fallbackEstimate(currentCompany, isLargeCompany(currentCompany), draw,
                           request.dateRange)
            : draw \in RandomDraws(IF isLargeCompany(currentCompany) THEN 40 ELSE 20)}
    [] OTHER ->
         {CompanyResult(currentCompany, JsOfCount(scrapingResult.activeAds),
                        JsOfCount(scrapingResult.newAds), Bool(scrapingResult.found),
                        JsOfError(scrapingResult.error))}

\* C21: a step in which the parse of the LLM reply fails appends exactly one
\* result for the current company, the fallback of its route, does not enter
\* the per-company catch block and does not end the request
C21_ParseFailureFallsBack ==
  [][ ParseFails =>
        /\ \E value \in Fallbacks : results' = Pushed(results, i, value)
        /\ thrown' = thrown
        /\ pc' # "done"
        /\ response' = response ]_vars

\* the verify route has answered a company whose LLM reply could not be
\* parsed with the scraped data
C21_Witness ==
  /\ request.route = "verify" /\ Answered
  /\ \E p \in DOMAIN log : log[p].op = "unparsed" /\ log[p].k = 1
  /\ 1 \notin thrown
  /\ Len(results) >= 1
  /\ Get(results[1].value, "found") = Bool(TRUE)
  /\ Get(results[1].value, "activeAds") = Num(10)

\* the cap part_003 puts on the count of each tier: 20 in the handle branch,
\* 30 in the domain branch, 10 for a count without handle or domain
TierCap(tier) ==
  CASE tier = "HANDLE" -> 20
    [] tier = "DOMAIN" -> 30
    [] OTHER -> 10

\* C22: an activeAds that is not null is a positive integer no greater than
\* the cap of the tier of the result
C22_ActiveAdsWithinTierCap ==
  (Scanned("handle") /\ scanOut.result.activeAds # None) =>
     /\ scanOut.result.activeAds[1] >= 1
     /\ scanOut.result.activeAds[1] <= TierCap(ScanTier)

\* the characters that end a path segment
SegmentStops == {"/", "?", "#"}

\* host pattern k occurs in the URL at position p, followed by a slash and a
\* character of a path segment
HostAt(url, k, p) ==
  /\ StartsAt(toLowerCase(url), HostPatterns[k] \o "/", p)
  /\ p + Len(HostPatterns[k]) + 1 <= Len(url)
  /\ CharAt(url, p + Len(HostPatterns[k]) + 1) \notin SegmentStops

\* the first host pattern that occurs in the URL is pattern k, and its first
\* occurrence is at position p
FirstHostAt(url, k, p) ==
  /\ HostAt(url, k, p)
  /\ \A j \in 1..(k - 1), q \in 1..Len(url) : ~HostAt(url, j, q)
  /\ \A q \in 1..(p - 1) : ~HostAt(url, k, q)

\* the n characters of the URL from position from are a whole path segment
IsSegment(url, from, n) ==
  /\ \A c \in from..(from + n - 1) : CharAt(url, c) \notin SegmentStops
  /\ \/ from + n = Len(url) + 1
     \/ CharAt(url, from + n) \in SegmentStops

\* the variants of a path segment that a handle list is built of
VariantsOf(seg) ==
  { seg,
    toLowerCase(seg),
    keepChars(seg, UpperLetters \cup LowerLetters \cup Digits),
    trim(removeAll(seg, BusinessSuffixes)),
    seg \o "insta", seg \o "_official", seg \o ".official", seg \o "_ig",
    removeAll(seg, DanishSuffixes) }

\* C23: the handle list has no duplicates, no empty string and no string of
\* length <= 2, and each of its handles is a variant of the first path segment
\* after the first host pattern that matches the social URL
C23_HandleListWellFormed ==
  Scanned("handle") =>
    LET handles == scanOut.ev.socialHandles
        url == scanIn.company.facebookUrl
    IN /\ \A a, b \in 1..Len(handles) : a # b => handles[a] # handles[b]
       /\ \A a \in 1..Len(handles) : handles[a] # "" /\ Len(handles[a]) > 2
       /\ handles # <<>> =>
            /\ url # None
            /\ \E k \in 1..Len(HostPatterns), p \in 1..Len(url[1]) :
                 /\ FirstHostAt(url[1], k, p)
                 /\ LET from == p + Len(HostPatterns[k]) + 1
                    IN \E n \in 1..(Len(url[1]) - from + 1) :
                         /\ IsSegment(url[1], from, n)
                         /\ \E variants \in
                                {VariantsOf(SubSeq(url[1], from, from + n - 1))} :
                              \A a \in 1..Len(handles) : handles[a] \in variants

\* the URL https://m.facebook.com/Xas?ref=1#top was scanned: the list starts
\* with the segment "Xas", has lost the repeated variants and the variant "X"
C23_Witness ==
  /\ Scanned("handle")
  /\ scanIn.company = XasMobile
  /\ scanOut.ev.socialHandles
       = <<"Xas", "xas", "Xasinsta", "Xas_official", "Xas.official", "Xas_ig">>

\* the handle alone, @handle, facebook.com/handle, /handle or "handle" occurs
\* in the document: lower-cased in the lower-cased or the raw text, or with
\* its own letters in either
HandleInDocument(handle, doc) ==
  \E text \in {doc, toLowerCase(doc)} :
     \/ \E h \in {handle, toLowerCase(handle)} :
          \/ includes(text, "@" \o h)
          \/ includes(text, "\"" \o h \o "\"")
     \/ includes(text, toLowerCase(handle))
     \/ includes(text, "facebook.com/" \o toLowerCase(handle))
     \/ includes(text, "/" \o toLowerCase(handle))

\* C24: in a scan that reaches the handle loop, a handle is matched if and
\* only if some handle of the list occurs in the document, and the matched
\* handle is the earliest such handle of the list
C24_FirstMatchingHandleWins ==
  (Scanned("handle") /\ ~scanOut.ev.hasNoResults) =>
    LET handles == scanOut.ev.socialHandles
        occurs == {a \in 1..Len(handles) : HandleInDocument(handles[a], scanIn.doc)}
    IN /\ scanOut.ev.socialHandleVerified <=> occurs # {}
       /\ (scanOut.ev.matchedHandle # None) <=> occurs # {}
       /\ occurs # {} =>
            \E a \in occurs :
               /\ scanOut.ev.matchedHandle = Some(handles[a])
               /\ \A b \in occurs : a <= b

\* the list of Acme starts with "acmecorp"; in a document with "acme.com" and
\* without "acmecorp" the second handle, "acme", is the matched one
C24_Witness ==
  /\ Scanned("handle")
  /\ scanIn.company = Acme
  /\ ~scanOut.ev.hasNoResults
  /\ scanOut.ev.socialHandles[1] = "acmecorp"
  /\ ~HandleInDocument("acmecorp", scanIn.doc)
  /\ scanOut.ev.matchedHandle = Some("acme")

\* C25: in a scan of a document that passes the no-results test the domain
\* counts as appearing, and the domain counting branch is taken, only if the
\* domain extracted from websiteUrl is not empty and occurs in the document
C25_DomainVerifiedOnlyByDomain ==
  (Scanned("handle") /\ scanIn.doc # "" /\ ~scanOut.ev.hasNoResults) =>
    ((scanOut.ev.domainAppears \/ scanOut.branch = "domain") =>
       /\ scanOut.ev.websiteDomain # ""
       /\ includes(toLowerCase(scanIn.doc), scanOut.ev.websiteDomain))

\* C26: a counting method never lowers the running ad count
C26_CountNeverLowered ==
  [][ (scanOut.route \in {"counter", "highest"} /\ scanOut'.route = scanOut.route) =>
         scanOut'.adCount >= scanOut.adCount ]_vars

\* the last test request of the connection test of a route
lastTest(route) == IF route = "fallback" THEN 2 ELSE 0

\* the connection test has failed: its last test request was refused
TestFailed ==
  \E p \in DOMAIN log : log[p].op = "refused" /\ log[p].k = lastTest(request.route)

\* a test request of the connection test has succeeded
TestPassed ==
  \E p \in DOMAIN log :
     /\ log[p].op = "probe"
     /\ (p = Len(log) \/ log[p + 1].op # "refused")

\* a company was processed: its search page was requested or a result pushed
Processed == results # <<>> \/ \E p \in DOMAIN log : log[p].op \in {"fetch", "push"}

\* C27: a failed connection test (in part_009: /content and /scrape both
\* refused) ends the request with status 400 and no company is processed;
\* companies are processed only after a test request has succeeded
C27_FailedTestEndsRequest ==
  request.route \in TestedRoutes =>
     /\ TestFailed => pc = "done" /\ response.status = 400 /\ ~Processed
     /\ (Processed \/ pc \in {"loop", "fetch", "delay"}) => TestPassed /\ ~TestFailed

C27_Witness ==
  /\ request.route = "fallback"
  /\ request.companies # <<>>
  /\ TestFailed
  /\ response = ErrorResponse(400,
        "Browserless API connection failed. Rate limit exceeded. Please try again later.")

\* C27 as stated: a refused test request is never followed by the processing
\* of a company, and the request it belongs to ends with status 400
C27_AnyRefusedTestEndsRequest ==
  (request.route \in TestedRoutes /\ \E p \in DOMAIN log : log[p].op = "refused") =>
     /\ ~Processed
     /\ pc = "done" => response.status = 400

\* the endpoints probed so far, in the order of the requests
RECURSIVE probedEndpoints(_)
probedEndpoints(entries) ==
  IF entries = <<>> THEN <<>>
  ELSE (IF Head(entries).op = "probe" THEN <<endpointsToTry[Head(entries).k]>> ELSE <<>>)
         \o probedEndpoints(Tail(entries))

\* the probes that were refused
refusedProbes == {log[p].k : p \in {q \in DOMAIN log : log[q].op = "refused"}}

\* the analysis of a company has started or the handler has reached the loop
Analysing ==
  \/ pc \in {"loop", "llm", "delay"}
  \/ results # <<>>
  \/ \E p \in DOMAIN log : log[p].op \in {"llm", "push"}
  \/ pc = "done" /\ response.status \in {200, 500}

Completes(n) ==
  /\ n \in DOMAIN client'.calls
  /\ client'.calls[n].phase = "done"
  /\ (n \in DOMAIN client.calls => client.calls[n].phase # "done")

\* the React state of the page once its queued updates are rendered
Latest(p) == Applied(p, p.queue)

\* the calls that have issued their request
Sent(p) == {n \in DOMAIN p.calls : p.calls[n].sent}

\* C29: the loading flag is false after every completed handleAnalyze call,
\* and a call rejected by the validation issues no request and leaves the
\* results as they were
C29_LoadingClearedAfterEveryCall ==
  [][ \A n \in 1..MaxClicks :
         Completes(n) =>
            /\ ~Latest(client').loading
            /\ client'.calls[n].path = "rejected" =>
                  /\ Sent(client') = Sent(client)
                  /\ client'.results = client.results
                  /\ Latest(client').results = Latest(client).results ]_vars

C29_Witness ==
  \E a, b, c \in DOMAIN client.calls :
     /\ client.calls[a].path = "success"
     /\ client.calls[b].path \in {"httpError", "networkError"}
     /\ client.calls[c].path = "rejected"
     /\ a < c
     /\ client.results = Some(a)
     /\ client.queue = <<>>
     /\ ~client.loading

\* the calls that wait for their response or for its body
Pending(p) == {n \in DOMAIN p.calls : p.calls[n].phase # "done"}

\* C30: at most one call of the page has a request pending, and while it is
\* pending the button is rendered disabled
C30_OneRequestInFlight ==
  client.variant # "none" =>
     /\ Cardinality(Pending(client)) <= 1
     /\ Pending(client) # {} => client.loading

C30_Witness ==
  /\ Cardinality(Pending(client)) = 1
  /\ client.blocked >= 1
  /\ \E n \in DOMAIN client.calls : client.calls[n].path = "success"

====
